---- MODULE Spec2Model ----
(***************************************************************************)
(* Model of the Worker Manager of the job-master framework                 *)
(* (lib/master/worker_manager.go): the per-worker entry state machine, the *)
(* epoch guard, the recovery protocol (InitAfterRecover), the timeout      *)
(* checker, the bounded event queue and its consumer Tick.                 *)
(*                                                                         *)
(* Every handler that runs under the manager mutex is one atomic action.   *)
(* InitAfterRecover and Tick release the mutex between their steps and are *)
(* modelled with a program counter each (initPc, tickPc).                  *)
(***************************************************************************)
EXTENDS Integers, Sequences, FiniteSets, TLC

\* ------------------------------------------------------------------------
\* Bounds of the model
\* ------------------------------------------------------------------------
Workers == {"w1", "w2"}

WorkerSeq == <<"w1", "w2">>

\* the IDs CreateWorker hands out to new workers; the other IDs belong to
\* workers of the previous run of this master
NewWorkerIDs == {"w2"}

\* the executor node a worker is placed on and heartbeats from
NodeOf(w) ==
    IF w = "w1" THEN "e1" ELSE "e2"

\* the clock runs from 0 to MaxTime
MaxTime == 2

\* capacity of eventQueue in the model (1024 in the program)
QueueCap == 3

\* number of worker-status messages the environment sends
MaxStatusMsgs == 1

\* the epoch this master was constructed with
OwnEpoch == 2

\* timeouts of config.TimeoutConfig, in clock units
WorkerTimeoutDuration == 1

WorkerTimeoutGracefulDuration == 1

\* ------------------------------------------------------------------------
\* Values
\* ------------------------------------------------------------------------
NoExecutor == "none"

NoError == "none"

\* epochs carried by incoming messages: stale, current, newer
MsgEpochs == {OwnEpoch - 1, OwnEpoch, OwnEpoch + 1}

\* codes a WorkerStatus message of the worker can carry
MsgStatusCodes == {"Normal", "Finished", "Stopped"}

\* what the metadata store holds for a worker of this master
PersistedCodes == {"absent", "Normal", "Finished"}

workerOnlineEvent == "WorkerOnline"

workerOfflineEvent == "WorkerOffline"

workerStatusUpdatedEvent == "WorkerStatusUpdated"

workerDispatchFailedEvent == "WorkerDispatchFailed"

VARIABLES
    state,            \* WorkerManager.state
    workerEntries,    \* WorkerManager.workerEntries: WorkerID -> entry
    eventQueue,       \* WorkerManager.eventQueue (FIFO channel)
    allWorkersReady,  \* TRUE when the allWorkersReady channel is closed
    errCenter,        \* first error given to errCenter.OnError
    panicked,         \* reason of the panic that ended the process
    now,              \* clock.Now()
    isInit,           \* constructor argument isInit
    persisted,        \* worker metadata found by LoadAllWorkers
    initPc,           \* position of InitAfterRecover
    timerStart,       \* time at which InitAfterRecover armed its timer
    tickPc,           \* position of Tick
    checkerAlive,     \* the background checker goroutine is running
    dispatch,         \* progress of the dispatch pipeline per worker ID
    nStatus,          \* status messages sent so far
    delivered,        \* per worker: callbacks invoked by Tick, in order
    offlineFrom,      \* per worker: the state the checker found it in when
                      \* it marked it Offline ("none" before that)
    timedOut,         \* workers tombstoned by the timer of InitAfterRecover
    lastOp,           \* the operation that ran last and its inputs
    closed,           \* DefaultBaseMaster.closeCh is closed
    createWorkerQuota, \* units of DefaultBaseMaster.createWorkerQuota held
    calls,            \* per CreateWorker call: its position and its result
    metaKV,           \* the metadata store: epoch counter and MasterMeta
    baseMaster,       \* position and locals of DefaultBaseMaster.Init
    inits,            \* the Init calls that have ended, in order
    errCh,            \* DefaultBaseMaster.errCh (capacity 1)
    errLog,           \* the errors given to DefaultBaseMaster.OnError
    pollLog,          \* the errors Poll has returned from errCh
    pollTicks,        \* per Poll call: it went on to Tick and the user's Tick
    closeResult,      \* what the last call of Close returned
    staleMaster,      \* position and locals of Init in a second, stale
                      \* instance of the same masterID that is still running
    mu                \* WorkerManager.mu: the goroutine that holds it, and
                      \* the position of every goroutine that takes it

\* the fields of the DefaultBaseMaster and of the metadata store
baseVars == <<closed, createWorkerQuota, calls, metaKV, baseMaster, inits,
              errCh, errLog, pollLog, pollTicks, closeResult, staleMaster, mu>>

\* the Worker Manager and its environment
wmVars == <<state, workerEntries, eventQueue, allWorkersReady, errCenter,
            panicked, now, isInit, persisted, initPc, timerStart, tickPc,
            checkerAlive, dispatch, nStatus, delivered, offlineFrom,
            timedOut, lastOp>>

vars == <<state, workerEntries, eventQueue, allWorkersReady, errCenter,
          panicked, now, isInit, persisted, initPc, timerStart, tickPc,
          checkerAlive, dispatch, nStatus, delivered, offlineFrom,
          timedOut, lastOp, closed, createWorkerQuota, calls, metaKV,
          baseMaster, inits, errCh, errLog, pollLog, pollTicks, closeResult,
          staleMaster, mu>>

\* the fields of the WorkerManager itself
mgrVars == <<state, workerEntries, eventQueue, allWorkersReady, errCenter,
             panicked>>

\* ------------------------------------------------------------------------
\* workerEntry and its status reader
\* ------------------------------------------------------------------------
newWorkerEntry(executorID, expireAt, st, code) ==
    [state |-> st, executorID |-> executorID, expireAt |-> expireAt,
     code |-> code, pending |-> FALSE]

newWaitingWorkerEntry(code) ==
    newWorkerEntry(NoExecutor, 0, "Wait", code)

MarkAsOnline(entry, executorID, expireAt) ==
    [entry EXCEPT !.state = "Online", !.executorID = executorID,
                  !.expireAt = expireAt]

MarkAsOffline(entry) ==
    [entry EXCEPT !.state = "Offline"]

MarkAsTombstone(entry) ==
    [entry EXCEPT !.state = "Tombstone"]

SetExpireTime(entry, expireAt) ==
    [entry EXCEPT !.expireAt = expireAt]

IsTombstone(entry) ==
    entry.state = "Tombstone"

\* StatusReader().OnAsynchronousNotification(status)
OnAsynchronousNotification(entry, code) ==
    [entry EXCEPT !.code = code, !.pending = TRUE]

\* StatusReader().Receive(): consumes the pending notification
Receive(entry) ==
    [entry EXCEPT !.pending = FALSE]

\* make(map[WorkerID]*workerEntry)
NoEntries ==
    [x \in {} |-> newWaitingWorkerEntry("Normal")]

\* delete(m.workerEntries, w)
DeleteEntry(entries, w) ==
    [x \in DOMAIN entries \ {w} |-> entries[x]]

\* m.workerEntries[w] = entry
PutEntry(entries, w, entry) ==
    [x \in DOMAIN entries \cup {w} |-> IF x = w THEN entry ELSE entries[x]]

\* ------------------------------------------------------------------------
\* Helpers of the WorkerManager
\* ------------------------------------------------------------------------
\* mutant: the graceful duration is left out
nextExpireTime_NoGrace ==
    now + WorkerTimeoutDuration

nextExpireTime ==
    now + (WorkerTimeoutDuration + WorkerTimeoutGracefulDuration)

\* checkMasterEpochMatch panics for a message of a newer master
IsStaleMaster(msgEpoch) ==
    msgEpoch > OwnEpoch

\* mutant: the check for a smaller epoch is missing
checkMasterEpochMatch_NoStaleCheck(msgEpoch) ==
    TRUE

\* checkMasterEpochMatch returns ok
checkMasterEpochMatch(msgEpoch) ==
    ~(msgEpoch < OwnEpoch)

\* enqueueEvent succeeds iff the channel has room within the enqueue bound
CanEnqueue(queue) ==
    Len(queue) < QueueCap

masterEvent(tp, workerID, err) ==
    [Tp |-> tp, WorkerID |-> workerID, Err |-> err]

\* errCenter.OnError keeps the first error
OnError(cur, err) ==
    IF cur = NoError THEN err ELSE cur

\* mutant: the case of WorkerStatusStopped is missing
OfflineReason_NoStop(code) ==
    IF code = "Finished" THEN "ErrWorkerFinish" ELSE "ErrWorkerOffline"

\* the offline reason computed from the cached status code
OfflineReason(code) ==
    CASE code = "Finished" -> "ErrWorkerFinish"
      [] code = "Stopped" -> "ErrWorkerStop"
      [] OTHER -> "ErrWorkerOffline"

Op(name, w, epoch) ==
    [op |-> name, w |-> IF epoch = 0 THEN "-" ELSE w, epoch |-> epoch]

\* ------------------------------------------------------------------------
\* Values of the Base Master
\* ------------------------------------------------------------------------
\* the CreateWorker calls of the user, each named by the worker ID that
\* uuidGen.NewString() returns for it
CreateCalls == {"u1", "u2", "u3", "u4"}

\* a CreateWorker call that has not been made yet
NoCall ==
    [pc |-> "idle", workerID |-> "", err |-> NoError, acquired |-> FALSE,
     released |-> 0]

\* capacity of createWorkerQuota in the model (100 in the program)
maxCreateWorkerConcurrency == 2

\* a process in which Init has not been called yet
NotStarted ==
    [pc |-> "idle", loaded |-> [StatusCode |-> "none", Epoch |-> 0],
     epoch |-> 0, currentEpoch |-> 0, wmEpoch |-> 0, wmIsInit |-> FALSE,
     stored |-> 0, doInitOK |-> FALSE, userCalls |-> << >>,
     marked |-> [StatusCode |-> "none", Epoch |-> 0],
     callbackErr |-> FALSE]

\* number of times the master process is started
MaxInits == 3

\* number of errors given to DefaultBaseMaster.OnError
MaxErrors == 3

\* number of Poll calls
MaxPolls == 3

\* the errors components report: two fatal ones and context.Canceled
ErrValues == {"ErrA", "ErrB", "Canceled"}

\* Close has not been called
NotCalled == "notCalled"

\* ------------------------------------------------------------------------
\* Initial state: the state after NewWorkerManager
\* ------------------------------------------------------------------------
\* Worker IDs are UUIDs: which ID a worker gets does not matter, so the
\* workers found in the metadata store are numbered first and IDs for new
\* workers are handed out in the order of WorkerSeq.
\* the goroutines that enqueue an event with m.mu held: the handler of the
\* heartbeat messages, the timeout checker, and one dispatch goroutine per
\* failed CreateWorker call
AbortCalls == {"u1", "u2", "u3"}

Producers == {"HandleHeartbeat", "checkWorkerEntriesOnce"} \cup AbortCalls

\* no event
NoEvent ==
    [Tp |-> "none", WorkerID |-> "-", Err |-> NoError]

\* m.mu is free and no goroutine is on its way to it
Unlocked ==
    [holder |-> "none",
     pc |-> [t \in Producers |-> "idle"],
     event |-> [t \in Producers |-> NoEvent],
     order |-> << >>,
     tick |-> "select",
     tickEvent |-> NoEvent]

Init ==
    /\ isInit \in BOOLEAN
    /\ persisted \in [Workers -> PersistedCodes]
    /\ isInit => \A w \in Workers : persisted[w] = "absent"
    /\ \A i, j \in 1..Len(WorkerSeq) :
          i < j /\ persisted[WorkerSeq[i]] = "absent"
              => persisted[WorkerSeq[j]] = "absent"
    /\ state = IF isInit THEN "Ready" ELSE "LoadingMeta"
    /\ workerEntries = NoEntries
    /\ eventQueue = << >>
    /\ allWorkersReady = FALSE
    /\ errCenter = NoError
    /\ panicked = "none"
    /\ now = 0
    /\ initPc = IF isInit THEN "none" ELSE "load"
    /\ timerStart = 0
    /\ tickPc = "idle"
    /\ checkerAlive = TRUE
    /\ dispatch = [w \in Workers |-> "none"]
    /\ nStatus = 0
    /\ delivered = [w \in Workers \cup CreateCalls |-> << >>]
    /\ offlineFrom = [w \in Workers |-> "none"]
    /\ timedOut = {}
    /\ lastOp = Op("NewWorkerManager", "-", 0)
    /\ closed = FALSE
    /\ createWorkerQuota = 0
    /\ calls = [k \in CreateCalls |-> NoCall]
    /\ metaKV = [counter |-> 0, StatusCode |-> "Uninit", Epoch |-> 0]
    /\ baseMaster = NotStarted
    /\ inits = << >>
    /\ errCh = NoError
    /\ errLog = << >>
    /\ pollLog = << >>
    /\ pollTicks = << >>
    /\ closeResult = NotCalled
    /\ staleMaster = NotStarted
    /\ mu = Unlocked

\* ------------------------------------------------------------------------
\* HandleHeartbeat(msg, fromNode)
\* ------------------------------------------------------------------------
\* mutant: a worker that is not Online goes Online by its heartbeat
IsFirstHeartbeat_NotOnline(entry) ==
    entry.state # "Online"

\* mutant: every heartbeat of a worker that is not offline counts as first
IsFirstHeartbeat_AnyLive(entry) ==
    entry.state \in {"Created", "Online"}

\* mutant: only a tombstone is kept from going online again
IsFirstHeartbeat_NotTombstone(entry) ==
    entry.state \in {"Created", "Offline"}

\* "Return if it is not the first heartbeat": only a Created entry goes on
IsFirstHeartbeat(entry) ==
    entry.state = "Created"

\* the scan that decides whether allWorkersReady is closed
AllReady(entries) ==
    \A x \in DOMAIN entries : entries[x].state # "Wait"

\* mutant: a discovered worker is reported to the user like a new one
HeartbeatWhileWaiting_WithEvent(w, fromNode, entry) ==
    /\ workerEntries' = [workerEntries EXCEPT
            ![w] = MarkAsOnline(entry, fromNode, nextExpireTime)]
    /\ eventQueue' = Append(eventQueue,
            masterEvent(workerOnlineEvent, w, NoError))
    /\ allWorkersReady' = AllReady(workerEntries')
    /\ UNCHANGED <<errCenter, panicked>>

\* the branch taken while the manager is in WaitingHeartbeat
HeartbeatWhileWaiting(w, fromNode, entry) ==
    IF entry.state # "Wait"
    THEN /\ panicked' = "UnexpectedWorkerEntryState"
         /\ workerEntries' = [workerEntries EXCEPT ![w] = entry]
         /\ UNCHANGED <<eventQueue, allWorkersReady, errCenter>>
    ELSE LET online == MarkAsOnline(entry, fromNode, nextExpireTime)
             entries == [workerEntries EXCEPT ![w] = online]
         IN  /\ workerEntries' = entries
             /\ IF AllReady(entries)
                THEN IF allWorkersReady
                     THEN /\ panicked' = "CloseOfClosedChannel"
                          /\ UNCHANGED allWorkersReady
                     ELSE /\ allWorkersReady' = TRUE
                          /\ UNCHANGED panicked
                ELSE UNCHANGED <<allWorkersReady, panicked>>
             /\ UNCHANGED <<eventQueue, errCenter>>

\* the branch taken while the manager is Ready
HeartbeatWhileReady(w, fromNode, entry) ==
    IF ~IsFirstHeartbeat(entry)
    THEN /\ workerEntries' = [workerEntries EXCEPT ![w] = entry]
         /\ UNCHANGED <<eventQueue, allWorkersReady, errCenter, panicked>>
    ELSE /\ workerEntries' = [workerEntries EXCEPT
                ![w] = MarkAsOnline(entry, fromNode, nextExpireTime)]
         /\ IF CanEnqueue(eventQueue)
            THEN /\ eventQueue' = Append(eventQueue,
                        masterEvent(workerOnlineEvent, w, NoError))
                 /\ UNCHANGED errCenter
            ELSE /\ errCenter' = OnError(errCenter, "ErrMasterTooManyPendingEvents")
                 /\ UNCHANGED eventQueue
         /\ UNCHANGED <<allWorkersReady, panicked>>

HandleHeartbeat(w, msgEpoch, fromNode) ==
    /\ panicked = "none"
    /\ UNCHANGED baseVars
    /\ lastOp' = Op("HandleHeartbeat", w, msgEpoch)
    /\ UNCHANGED <<state, now, isInit, persisted, initPc, timerStart, tickPc,
                   checkerAlive, dispatch, nStatus, delivered, offlineFrom, timedOut>>
    /\ IF state = "LoadingMeta"
       THEN UNCHANGED <<workerEntries, eventQueue, allWorkersReady,
                        errCenter, panicked>>
       ELSE IF IsStaleMaster(msgEpoch)
       THEN /\ panicked' = "StaleMasterStillRunning"
            /\ UNCHANGED <<workerEntries, eventQueue, allWorkersReady, errCenter>>
       ELSE IF ~checkMasterEpochMatch(msgEpoch)
       THEN UNCHANGED <<workerEntries, eventQueue, allWorkersReady,
                        errCenter, panicked>>
       ELSE IF w \notin DOMAIN workerEntries
       THEN UNCHANGED <<workerEntries, eventQueue, allWorkersReady,
                        errCenter, panicked>>
       ELSE LET entry == SetExpireTime(workerEntries[w], nextExpireTime)
            IN  IF state = "WaitingHeartbeat"
                THEN HeartbeatWhileWaiting(w, fromNode, entry)
                ELSE HeartbeatWhileReady(w, fromNode, entry)

\* ------------------------------------------------------------------------
\* OnWorkerStatusUpdateMessage(msg)
\* ------------------------------------------------------------------------
OnWorkerStatusUpdateMessage(w, msgEpoch, code) ==
    /\ panicked = "none"
    /\ UNCHANGED baseVars
    /\ nStatus < MaxStatusMsgs
    /\ nStatus' = nStatus + 1
    /\ lastOp' = Op("OnWorkerStatusUpdateMessage", w, msgEpoch)
    /\ UNCHANGED <<state, eventQueue, allWorkersReady, errCenter, now, isInit,
                   persisted, initPc, timerStart, tickPc, checkerAlive,
                   dispatch, delivered, offlineFrom, timedOut>>
    /\ IF IsStaleMaster(msgEpoch)
       THEN /\ panicked' = "StaleMasterStillRunning"
            /\ UNCHANGED workerEntries
       ELSE IF ~checkMasterEpochMatch(msgEpoch)
       THEN UNCHANGED <<workerEntries, panicked>>
       ELSE IF w \in DOMAIN workerEntries
       THEN /\ workerEntries' = [workerEntries EXCEPT
                    ![w] = OnAsynchronousNotification(workerEntries[w], code)]
            /\ UNCHANGED panicked
       ELSE UNCHANGED <<workerEntries, panicked>>

\* ------------------------------------------------------------------------
\* BeforeStartingWorker / AbortCreatingWorker, as the dispatch pipeline
\* calls them: CreateWorker is called by the user's code, which runs once
\* the manager is Ready; worker IDs are generated fresh; BeforeStartingWorker
\* runs at most once per dispatch and AbortCreatingWorker reports the
\* failure of the dispatch.
\* ------------------------------------------------------------------------
\* the user's code may start a dispatch
CanCreateWorker ==
    state = "Ready"

\* w is an ID uuidGen.NewString() can return: one that was never used
IsFreshID(w) ==
    w \in NewWorkerIDs /\ persisted[w] = "absent" /\ dispatch[w] = "none"

\* lastOp of BeforeStartingWorker(workerID, executorID)
StartOp(w) ==
    [op |-> "BeforeStartingWorker", w |-> w, epoch |-> 0]

\* mutant: the check for an existing entry is missing
BeforeStartingWorker_Overwrite(w, executorID) ==
    /\ panicked = "none"
    /\ UNCHANGED baseVars
    /\ dispatch[w] = "none"
    /\ CanCreateWorker
    /\ IsFreshID(w) \/ w \in DOMAIN workerEntries
    /\ lastOp' = StartOp(w)
    /\ UNCHANGED <<state, eventQueue, allWorkersReady, errCenter, now, isInit,
                   persisted, initPc, timerStart, tickPc, checkerAlive,
                   nStatus, delivered, offlineFrom, timedOut>>
    /\ workerEntries' = PutEntry(workerEntries, w,
            newWorkerEntry(executorID, nextExpireTime, "Created", "Created"))
    /\ dispatch' = [dispatch EXCEPT ![w] = "started"]
    /\ UNCHANGED panicked

BeforeStartingWorker(w, executorID) ==
    /\ panicked = "none"
    /\ UNCHANGED baseVars
    /\ dispatch[w] = "none"
    /\ CanCreateWorker
    /\ IsFreshID(w) \/ w \in DOMAIN workerEntries
    /\ lastOp' = StartOp(w)
    /\ UNCHANGED <<state, eventQueue, allWorkersReady, errCenter, now, isInit,
                   persisted, initPc, timerStart, tickPc, checkerAlive,
                   nStatus, delivered, offlineFrom, timedOut>>
    /\ IF w \in DOMAIN workerEntries
       THEN /\ panicked' = "WorkerAlreadyExists"
            /\ UNCHANGED <<workerEntries, dispatch>>
       ELSE /\ workerEntries' = PutEntry(workerEntries, w,
                    newWorkerEntry(executorID, nextExpireTime,
                                   "Created", "Created"))
            /\ dispatch' = [dispatch EXCEPT ![w] = "started"]
            /\ UNCHANGED panicked

AbortCreatingWorker(w, errIn) ==
    /\ panicked = "none"
    /\ UNCHANGED baseVars
    /\ \/ /\ IsFreshID(w)
          /\ CanCreateWorker
          /\ errIn = "ErrScheduleTask"
       \/ dispatch[w] = "started" /\ errIn = "ErrDispatchTask"
    /\ dispatch' = [dispatch EXCEPT ![w] = "done"]
    /\ lastOp' = Op("AbortCreatingWorker", w, 0)
    /\ IF CanEnqueue(eventQueue)
       THEN /\ eventQueue' = Append(eventQueue,
                   masterEvent(workerDispatchFailedEvent, w, errIn))
            /\ UNCHANGED errCenter
       ELSE /\ errCenter' = OnError(errCenter, "ErrMasterTooManyPendingEvents")
            /\ UNCHANGED eventQueue
    /\ UNCHANGED <<state, workerEntries, allWorkersReady, panicked, now,
                   isInit, persisted, initPc, timerStart, tickPc,
                   checkerAlive, nStatus, delivered, offlineFrom, timedOut>>

\* ------------------------------------------------------------------------
\* Tick(ctx): the consumer of eventQueue
\* ------------------------------------------------------------------------
\* event.beforeHook(): the WorkerOffline hook marks the entry it captured as
\* tombstone, the WorkerDispatchFailed hook deletes the entry from the map
\* mutant: the WorkerDispatchFailed hook marks the entry as tombstone and
\* leaves it in the map
beforeHook_KeepEntry(event, entries) ==
    IF event.WorkerID \in DOMAIN entries /\ event.Tp # workerOnlineEvent
                                         /\ event.Tp # workerStatusUpdatedEvent
    THEN [entries EXCEPT ![event.WorkerID] = MarkAsTombstone(@)]
    ELSE entries

beforeHook(event, entries) ==
    CASE event.Tp = workerOfflineEvent ->
            IF event.WorkerID \in DOMAIN entries
            THEN [entries EXCEPT ![event.WorkerID] = MarkAsTombstone(@)]
            ELSE entries
      [] event.Tp = workerDispatchFailedEvent ->
            DeleteEntry(entries, event.WorkerID)
      [] OTHER -> entries

\* mutant: Tick does not look at errCenter before it drains the queue
TickBegin_NoCheckError ==
    /\ panicked = "none"
    /\ UNCHANGED baseVars
    /\ tickPc = "idle"
    /\ ~closed
    /\ tickPc' = "running"
    /\ lastOp' = Op("TickBegin", "-", 0)
    /\ UNCHANGED <<state, workerEntries, eventQueue, allWorkersReady,
                   errCenter, panicked, now, isInit, persisted, initPc,
                   timerStart, checkerAlive, dispatch, nStatus, delivered,
                   offlineFrom, timedOut>>

\* Tick starts: errCenter.CheckError() returns the pending error, if any
TickBegin ==
    /\ panicked = "none"
    /\ UNCHANGED baseVars
    /\ tickPc = "idle"
    /\ ~closed
    /\ tickPc' = IF errCenter = NoError THEN "running" ELSE "idle"
    /\ lastOp' = Op("TickBegin", "-", 0)
    /\ UNCHANGED <<state, workerEntries, eventQueue, allWorkersReady,
                   errCenter, panicked, now, isInit, persisted, initPc,
                   timerStart, checkerAlive, dispatch, nStatus, delivered, offlineFrom, timedOut>>

\* mutant: the callback is run by whoever finds an event in the queue
TickDeliver_OutsideTick ==
    /\ panicked = "none"
    /\ UNCHANGED baseVars
    /\ eventQueue # << >>
    /\ LET event == Head(eventQueue)
       IN  /\ eventQueue' = Tail(eventQueue)
           /\ workerEntries' = beforeHook(event, workerEntries)
           /\ delivered' = [delivered EXCEPT
                  ![event.WorkerID] = Append(@, event.Tp)]
           /\ lastOp' = Op("TickDeliver", event.WorkerID, 0)
    /\ UNCHANGED <<state, allWorkersReady, errCenter, panicked, now, isInit,
                   persisted, initPc, timerStart, tickPc, checkerAlive,
                   dispatch, nStatus, offlineFrom, timedOut>>

\* one iteration of the loop: receive an event, run its hook, call back
TickDeliver ==
    /\ panicked = "none"
    /\ UNCHANGED baseVars
    /\ tickPc = "running"
    /\ eventQueue # << >>
    /\ LET event == Head(eventQueue)
       IN  /\ eventQueue' = Tail(eventQueue)
           /\ workerEntries' = beforeHook(event, workerEntries)
           /\ delivered' = [delivered EXCEPT
                  ![event.WorkerID] = Append(@, event.Tp)]
           /\ lastOp' = Op("TickDeliver", event.WorkerID, 0)
    /\ UNCHANGED <<state, allWorkersReady, errCenter, panicked, now, isInit,
                   persisted, initPc, timerStart, tickPc, checkerAlive,
                   dispatch, nStatus, offlineFrom, timedOut>>

\* what Tick returns: nil, the error of its context (the 5 s deadline has
\* passed or errCenter cancelled it), the error of a callback
TickResults == {"nil", "ctxErr", "callbackErr"}

\* lastOp of the return of Tick
TickReturnOp(result) ==
    [op |-> "TickReturn", w |-> "-", epoch |-> 0, result |-> result]

\* the select of the loop can take this way out, or the callback of the
\* event that was just received has returned an error
CanReturn(result) ==
    CASE result = "nil" -> eventQueue = << >>
      [] result = "ctxErr" -> TRUE
      [] result = "callbackErr" -> lastOp.op = "TickDeliver"

\* mutant: the default case is taken although an event is ready
TickReturn_NoEmptyCheck(result) ==
    /\ panicked = "none"
    /\ UNCHANGED baseVars
    /\ tickPc = "running"
    /\ result = "nil" \/ CanReturn(result)
    /\ tickPc' = "idle"
    /\ lastOp' = TickReturnOp(result)
    /\ UNCHANGED <<state, workerEntries, eventQueue, allWorkersReady,
                   errCenter, panicked, now, isInit, persisted, initPc,
                   timerStart, checkerAlive, dispatch, nStatus, delivered, offlineFrom, timedOut>>

\* Tick returns: the queue was seen empty (nil), the context is done (5 s
\* deadline or first error), or the callback returned an error
TickReturn(result) ==
    /\ panicked = "none"
    /\ UNCHANGED baseVars
    /\ tickPc = "running"
    /\ CanReturn(result)
    /\ tickPc' = "idle"
    /\ lastOp' = TickReturnOp(result)
    /\ UNCHANGED <<state, workerEntries, eventQueue, allWorkersReady,
                   errCenter, panicked, now, isInit, persisted, initPc,
                   timerStart, checkerAlive, dispatch, nStatus, delivered, offlineFrom, timedOut>>

\* ------------------------------------------------------------------------
\* The timeout checker: runBackgroundChecker / checkWorkerEntriesOnce
\* ------------------------------------------------------------------------
\* the orders in which a range over the map can visit its keys
Orders(S) ==
    {o \in [1..Cardinality(S) -> S] : \A i, j \in 1..Cardinality(S) :
                                          o[i] = o[j] => i = j}

\* mutant: only tombstones are skipped
SkipEntry_OnlyTombstone(entry) ==
    entry.state = "Tombstone"

\* "Prevent repeated delivery of the workerOffline event"
SkipEntry(entry) ==
    entry.state = "Offline" \/ entry.state = "Tombstone"

\* mutant: the expiry is compared with the zero time, not with the clock
NotTimedOut_IgnoreClock(entry) ==
    entry.expireAt > 0

\* entry.ExpireTime().After(m.clock.Now())
NotTimedOut(entry) ==
    entry.expireAt > now

\* the loop over the entries; stops at the first enqueue error
RECURSIVE checkEntries(_, _, _)
checkEntries(order, entries, queue) ==
    IF order = << >>
    THEN [entries |-> entries, queue |-> queue, err |-> NoError]
    ELSE LET w == Head(order)
             entry == entries[w]
         IN  IF SkipEntry(entry)
             THEN checkEntries(Tail(order), entries, queue)
             ELSE IF NotTimedOut(entry)
             THEN IF entry.pending
                  THEN LET received == [entries EXCEPT ![w] = Receive(entry)]
                       IN  IF CanEnqueue(queue)
                           THEN checkEntries(Tail(order), received,
                                    Append(queue, masterEvent(
                                        workerStatusUpdatedEvent, w, NoError)))
                           ELSE [entries |-> received, queue |-> queue,
                                 err |-> "ErrMasterTooManyPendingEvents"]
                  ELSE checkEntries(Tail(order), entries, queue)
             ELSE LET offline == [entries EXCEPT ![w] = MarkAsOffline(entry)]
                  IN  IF CanEnqueue(queue)
                      THEN checkEntries(Tail(order), offline,
                               Append(queue, masterEvent(workerOfflineEvent,
                                   w, OfflineReason(entry.code))))
                      ELSE [entries |-> offline, queue |-> queue,
                            err |-> "ErrMasterTooManyPendingEvents"]

\* one round of the ticker; an error ends the checker goroutine and is
\* given to errCenter
checkWorkerEntriesOnce ==
    /\ panicked = "none"
    /\ UNCHANGED baseVars
    /\ checkerAlive
    /\ lastOp' = Op("checkWorkerEntriesOnce", "-", 0)
    /\ IF state # "Ready"
       THEN UNCHANGED <<workerEntries, eventQueue, errCenter, checkerAlive,
                        offlineFrom>>
       ELSE \E order \in Orders(DOMAIN workerEntries) :
              LET r == checkEntries(order, workerEntries, eventQueue)
              IN  /\ workerEntries' = r.entries
                  /\ eventQueue' = r.queue
                  /\ errCenter' = IF r.err = NoError THEN errCenter
                                  ELSE OnError(errCenter, r.err)
                  /\ checkerAlive' = (r.err = NoError)
                  /\ offlineFrom' = [w \in Workers |->
                         IF /\ w \in DOMAIN workerEntries
                            /\ workerEntries[w].state # "Offline"
                            /\ r.entries[w].state = "Offline"
                         THEN workerEntries[w].state
                         ELSE offlineFrom[w]]
    /\ UNCHANGED <<state, allWorkersReady, panicked, now, isInit, persisted,
                   initPc, timerStart, tickPc, dispatch, nStatus, delivered,
                   timedOut>>

\* ------------------------------------------------------------------------
\* InitAfterRecover(ctx)
\* ------------------------------------------------------------------------
\* the entries inserted for the persisted workers: Finished ones are skipped
RestoredEntries(entries) ==
    [x \in DOMAIN entries \cup
           {w \in Workers : persisted[w] \notin {"absent", "Finished"}} |->
        IF persisted[x] \notin {"absent", "Finished"}
        THEN newWaitingWorkerEntry(persisted[x])
        ELSE entries[x]]

\* mutant: the test for Wait is missing
TombstoneWaiting_All(entries) ==
    [x \in DOMAIN entries |-> MarkAsTombstone(entries[x])]

\* the timer case of the select: every entry still in Wait is tombstoned
TombstoneWaiting(entries) ==
    [x \in DOMAIN entries |->
        IF entries[x].state = "Wait"
        THEN MarkAsTombstone(entries[x])
        ELSE entries[x]]

\* LoadAllWorkers succeeded; the entries are inserted under the mutex
InitLoad ==
    /\ panicked = "none"
    /\ UNCHANGED baseVars
    /\ initPc = "load"
    /\ lastOp' = Op("InitLoad", "-", 0)
    /\ IF state # "LoadingMeta"
       THEN /\ panicked' = "Unreachable"
            /\ UNCHANGED <<state, workerEntries, initPc, timerStart>>
       ELSE LET entries == RestoredEntries(workerEntries)
            IN  /\ workerEntries' = entries
                /\ IF DOMAIN entries = {}
                   THEN state' = "Ready" /\ initPc' = "done"
                   ELSE state' = "WaitingHeartbeat" /\ initPc' = "wait"
                /\ timerStart' = now
                /\ UNCHANGED panicked
    /\ UNCHANGED <<eventQueue, allWorkersReady, errCenter, now, isInit,
                   persisted, tickPc, checkerAlive, dispatch, nStatus,
                   delivered, offlineFrom, timedOut>>

\* LoadAllWorkers failed: the error is returned and given to errCenter
InitLoadFail ==
    /\ panicked = "none"
    /\ UNCHANGED baseVars
    /\ initPc = "load"
    /\ initPc' = "failed"
    /\ errCenter' = OnError(errCenter, "ErrLoadAllWorkers")
    /\ lastOp' = Op("InitLoadFail", "-", 0)
    /\ UNCHANGED <<state, workerEntries, eventQueue, allWorkersReady,
                   panicked, now, isInit, persisted, timerStart, tickPc,
                   checkerAlive, dispatch, nStatus, delivered, offlineFrom, timedOut>>

\* select: case <-m.allWorkersReady
InitAllReady ==
    /\ panicked = "none"
    /\ UNCHANGED baseVars
    /\ initPc = "wait"
    /\ allWorkersReady
    /\ initPc' = "setReady"
    /\ lastOp' = Op("InitAllReady", "-", 0)
    /\ UNCHANGED <<state, workerEntries, eventQueue, allWorkersReady,
                   errCenter, panicked, now, isInit, persisted, timerStart,
                   tickPc, checkerAlive, dispatch, nStatus, delivered, offlineFrom, timedOut>>

\* select: case <-timer.C
InitTimeout ==
    /\ panicked = "none"
    /\ UNCHANGED baseVars
    /\ initPc = "wait"
    /\ now >= timerStart + (WorkerTimeoutDuration + WorkerTimeoutGracefulDuration)
    /\ workerEntries' = TombstoneWaiting(workerEntries)
    /\ timedOut' = {w \in DOMAIN workerEntries :
                        workerEntries[w].state = "Wait"}
    /\ initPc' = "setReady"
    /\ lastOp' = Op("InitTimeout", "-", 0)
    /\ UNCHANGED <<state, eventQueue, allWorkersReady, errCenter, panicked,
                   now, isInit, persisted, timerStart, tickPc, checkerAlive,
                   dispatch, nStatus, delivered, offlineFrom>>

\* select: case <-ctx.Done(): the context was cancelled, or errCenter
\* cancelled it on its first error
InitCancel ==
    /\ panicked = "none"
    /\ UNCHANGED baseVars
    /\ initPc = "wait"
    /\ initPc' = "failed"
    /\ errCenter' = OnError(errCenter, "ErrContextCanceled")
    /\ lastOp' = Op("InitCancel", "-", 0)
    /\ UNCHANGED <<state, workerEntries, eventQueue, allWorkersReady,
                   panicked, now, isInit, persisted, timerStart, tickPc,
                   checkerAlive, dispatch, nStatus, delivered, offlineFrom, timedOut>>

\* m.state = workerManagerReady; return nil
InitSetReady ==
    /\ panicked = "none"
    /\ UNCHANGED baseVars
    /\ initPc = "setReady"
    /\ state' = "Ready"
    /\ initPc' = "done"
    /\ lastOp' = Op("InitSetReady", "-", 0)
    /\ UNCHANGED <<workerEntries, eventQueue, allWorkersReady, errCenter,
                   panicked, now, isInit, persisted, timerStart, tickPc,
                   checkerAlive, dispatch, nStatus, delivered, offlineFrom, timedOut>>

\* ------------------------------------------------------------------------
\* GetWorkers, IsInitialized, removeTombstoneEntry
\* ------------------------------------------------------------------------
GetWorkers ==
    [x \in DOMAIN workerEntries |->
        IF IsTombstone(workerEntries[x]) THEN "tombstone" ELSE "running"]

\* mutant: only LoadingMeta counts as not initialized
IsInitialized_NotLoading ==
    state # "LoadingMeta"

IsInitialized ==
    state = "Ready"

\* the user holds a tombstone handle of w: from a delivered WorkerOffline
\* or WorkerDispatchFailed event, or from GetWorkers
HasTombstoneHandle(w) ==
    \/ \E i \in 1..Len(delivered[w]) :
          delivered[w][i] \in {workerOfflineEvent, workerDispatchFailedEvent}
    \/ w \in DOMAIN workerEntries /\ IsTombstone(workerEntries[w])

\* lastOp of removeTombstoneEntry(id): the ID and whether its entry existed
RemoveOp(w, exists) ==
    [op |-> "removeTombstoneEntry", w |-> w, epoch |-> 0, exists |-> exists]

\* mutant: a missing entry is not tolerated
removeTombstoneEntry_NotIdempotent(w) ==
    /\ panicked = "none"
    /\ UNCHANGED baseVars
    /\ HasTombstoneHandle(w)
    /\ lastOp' = RemoveOp(w, w \in DOMAIN workerEntries)
    /\ IF w \notin DOMAIN workerEntries \/ ~IsTombstone(workerEntries[w])
       THEN panicked' = "NotATombstone" /\ UNCHANGED workerEntries
       ELSE /\ workerEntries' = DeleteEntry(workerEntries, w)
            /\ UNCHANGED panicked
    /\ UNCHANGED <<state, eventQueue, allWorkersReady, errCenter, now, isInit,
                   persisted, initPc, timerStart, tickPc, checkerAlive,
                   dispatch, nStatus, delivered, offlineFrom, timedOut>>

removeTombstoneEntry(w) ==
    /\ panicked = "none"
    /\ UNCHANGED baseVars
    /\ HasTombstoneHandle(w)
    /\ lastOp' = RemoveOp(w, w \in DOMAIN workerEntries)
    /\ IF w \notin DOMAIN workerEntries
       THEN UNCHANGED <<workerEntries, panicked>>
       ELSE IF ~IsTombstone(workerEntries[w])
       THEN panicked' = "NotATombstone" /\ UNCHANGED workerEntries
       ELSE /\ workerEntries' = DeleteEntry(workerEntries, w)
            /\ UNCHANGED panicked
    /\ UNCHANGED <<state, eventQueue, allWorkersReady, errCenter, now, isInit,
                   persisted, initPc, timerStart, tickPc, checkerAlive,
                   dispatch, nStatus, delivered, offlineFrom, timedOut>>

\* ------------------------------------------------------------------------
\* The clock
\* ------------------------------------------------------------------------
AdvanceClock ==
    /\ panicked = "none"
    /\ UNCHANGED baseVars
    /\ now < MaxTime
    /\ now' = now + 1
    /\ lastOp' = Op("AdvanceClock", "-", 0)
    /\ UNCHANGED <<state, workerEntries, eventQueue, allWorkersReady,
                   errCenter, panicked, isInit, persisted, initPc, timerStart,
                   tickPc, checkerAlive, dispatch, nStatus, delivered, offlineFrom, timedOut>>

Next ==
    \/ \E w \in Workers, e \in MsgEpochs : HandleHeartbeat(w, e, NodeOf(w))
    \/ \E w \in Workers, e \in MsgEpochs, c \in MsgStatusCodes :
          OnWorkerStatusUpdateMessage(w, e, c)
    \/ \E w \in Workers : BeforeStartingWorker(w, NodeOf(w))
    \/ \E w \in Workers, err \in {"ErrScheduleTask", "ErrDispatchTask"} :
          AbortCreatingWorker(w, err)
    \/ TickBegin
    \/ TickDeliver
    \/ \E result \in TickResults : TickReturn(result)
    \/ checkWorkerEntriesOnce
    \/ InitLoad
    \/ InitLoadFail
    \/ InitAllReady
    \/ InitTimeout
    \/ InitCancel
    \/ InitSetReady
    \/ \E w \in Workers : removeTombstoneEntry(w)
    \/ AdvanceClock

Spec ==
    Init /\ [][Next]_vars

\* ------------------------------------------------------------------------
\* DefaultBaseMaster.CreateWorker and its dispatch goroutine
\* ------------------------------------------------------------------------
\* what the dispatch actions leave alone
dispatchRest == <<state, allWorkersReady, panicked, now, isInit, persisted,
                  initPc, timerStart, tickPc, checkerAlive, dispatch, nStatus,
                  delivered, offlineFrom, timedOut, lastOp, closed, metaKV,
                  baseMaster, inits, errCh, errLog, pollLog, pollTicks,
                  closeResult, staleMaster, mu>>

\* createWorkerQuota.Consume(quotaCtx) fails: no unit is free before the
\* deadline of createWorkerWaitQuotaTimeout
QuotaExhausted ==
    createWorkerQuota >= maxCreateWorkerConcurrency

\* the dispatches whose goroutine is running
InFlight ==
    {k \in CreateCalls : calls[k].pc \in {"schedule", "addExecutor", "send"}}

\* workerManager.OnCreatingWorker(workerID, executorID): the entry of the
\* worker becomes visible
OnCreatingWorker(entries, workerID, executorID) ==
    PutEntry(entries, workerID,
             newWorkerEntry(executorID, nextExpireTime, "Created", "Created"))

\* workerManager.OnCreatingWorkerFinished(workerID, err): a failure is
\* reported to the user as a WorkerDispatchFailed event
OnCreatingWorkerFinished(workerID, err) ==
    IF err = NoError
    THEN UNCHANGED <<eventQueue, errCenter>>
    ELSE IF CanEnqueue(eventQueue)
    THEN /\ eventQueue' = Append(eventQueue,
                masterEvent(workerDispatchFailedEvent, workerID, err))
         /\ UNCHANGED errCenter
    ELSE /\ errCenter' = OnError(errCenter, "ErrMasterTooManyPendingEvents")
         /\ UNCHANGED eventQueue

\* the goroutine of call k ends: the deferred createWorkerQuota.Release()
DispatchEnds(k, err) ==
    /\ calls' = [calls EXCEPT ![k].pc = "finished", ![k].err = err,
                              ![k].released = @ + 1]
    /\ createWorkerQuota' = createWorkerQuota - 1
    /\ OnCreatingWorkerFinished(k, err)

\* mutant: the error of Consume is ignored and the dispatch goes on
CreateWorker_IgnoreQuotaError(k, configOK) ==
    /\ panicked = "none"
    /\ calls[k].pc = "idle"
    /\ createWorkerQuota' = IF QuotaExhausted THEN createWorkerQuota
                            ELSE createWorkerQuota + 1
    /\ calls' = [calls EXCEPT ![k].pc = "schedule", ![k].workerID = k,
                              ![k].acquired = ~QuotaExhausted]
    /\ UNCHANGED <<workerEntries, eventQueue, errCenter>>
    /\ UNCHANGED dispatchRest

\* CreateWorker(workerType, config, cost) up to its return: Consume,
\* prepareWorkerConfig, go func()
CreateWorker(k, configOK) ==
    /\ panicked = "none"
    /\ calls[k].pc = "idle"
    /\ IF QuotaExhausted
       THEN /\ calls' = [calls EXCEPT ![k].pc = "returned",
                            ![k].err = "ErrMasterConcurrencyExceeded"]
            /\ UNCHANGED createWorkerQuota
       ELSE /\ createWorkerQuota' = createWorkerQuota + 1
            /\ IF configOK
               THEN calls' = [calls EXCEPT ![k].pc = "schedule",
                                 ![k].workerID = k, ![k].acquired = TRUE]
               ELSE calls' = [calls EXCEPT ![k].pc = "returned",
                                 ![k].err = "ErrMasterInvalidMeta",
                                 ![k].acquired = TRUE]
    /\ UNCHANGED <<workerEntries, eventQueue, errCenter>>
    /\ UNCHANGED dispatchRest

\* mutant: the entry is not inserted after the scheduler has answered
ScheduleTask_NoEntry(k, ok) ==
    /\ panicked = "none"
    /\ calls[k].pc = "schedule"
    /\ IF ok
       THEN /\ calls' = [calls EXCEPT ![k].pc = "addExecutor"]
            /\ UNCHANGED <<createWorkerQuota, eventQueue, errCenter>>
       ELSE DispatchEnds(k, "ErrScheduleTask")
    /\ UNCHANGED workerEntries
    /\ UNCHANGED dispatchRest

\* mutant: the entry is inserted whatever the scheduler has answered
ScheduleTask_AlwaysEntry(k, ok) ==
    /\ panicked = "none"
    /\ calls[k].pc = "schedule"
    /\ workerEntries' = OnCreatingWorker(workerEntries, k, "e1")
    /\ IF ok
       THEN /\ calls' = [calls EXCEPT ![k].pc = "addExecutor"]
            /\ UNCHANGED <<createWorkerQuota, eventQueue, errCenter>>
       ELSE DispatchEnds(k, "ErrScheduleTask")
    /\ UNCHANGED dispatchRest

\* serverMasterClient.ScheduleTask returns; on success the entry is created
ScheduleTask(k, ok) ==
    /\ panicked = "none"
    /\ calls[k].pc = "schedule"
    /\ IF ok
       THEN /\ workerEntries' = OnCreatingWorker(workerEntries, k, "e1")
            /\ calls' = [calls EXCEPT ![k].pc = "addExecutor"]
            /\ UNCHANGED <<createWorkerQuota, eventQueue, errCenter>>
       ELSE /\ DispatchEnds(k, "ErrScheduleTask")
            /\ UNCHANGED workerEntries
    /\ UNCHANGED dispatchRest

\* executorClientManager.AddExecutor returns
AddExecutor(k, ok) ==
    /\ panicked = "none"
    /\ calls[k].pc = "addExecutor"
    /\ IF ok
       THEN /\ calls' = [calls EXCEPT ![k].pc = "send"]
            /\ UNCHANGED <<createWorkerQuota, eventQueue, errCenter>>
       ELSE DispatchEnds(k, "ErrAddExecutor")
    /\ UNCHANGED workerEntries
    /\ UNCHANGED dispatchRest

\* what executorClient.Send can return: an error of the transport, a
\* response with an error code, a response with code OK
SendOutcomes == {"transport", "errorCode", "OK"}

\* lastOp of the return of executorClient.Send in the goroutine of call k
SendOp(k, outcome) ==
    [op |-> "SendDispatchTask", w |-> k, epoch |-> 0, outcome |-> outcome]

\* mutant: an error of the transport is reported as a failed dispatch
SendDispatchTask_ReportTransport(k, outcome) ==
    /\ panicked = "none"
    /\ calls[k].pc = "send"
    /\ DispatchEnds(k, IF outcome = "OK" THEN NoError
                       ELSE "ErrDispatchTask")
    /\ lastOp' = SendOp(k, outcome)
    /\ UNCHANGED workerEntries
    /\ UNCHANGED <<state, allWorkersReady, panicked, now, isInit, persisted,
                   initPc, timerStart, tickPc, checkerAlive, dispatch,
                   nStatus, delivered, offlineFrom, timedOut, closed, metaKV,
                   baseMaster, inits, errCh, errLog, pollLog, pollTicks,
                   closeResult, staleMaster, mu>>

\* executorClient.Send returns: a transport error is treated as success,
\* an error code is reported, OK ends the dispatch
SendDispatchTask(k, outcome) ==
    /\ panicked = "none"
    /\ calls[k].pc = "send"
    /\ DispatchEnds(k, IF outcome = "errorCode" THEN "ErrDispatchTask"
                       ELSE NoError)
    /\ lastOp' = SendOp(k, outcome)
    /\ UNCHANGED workerEntries
    /\ UNCHANGED <<state, allWorkersReady, panicked, now, isInit, persisted,
                   initPc, timerStart, tickPc, checkerAlive, dispatch,
                   nStatus, delivered, offlineFrom, timedOut, closed, metaKV,
                   baseMaster, inits, errCh, errLog, pollLog, pollTicks,
                   closeResult, staleMaster, mu>>

DispatchNext ==
    \/ \E k \in CreateCalls, configOK \in BOOLEAN : CreateWorker(k, configOK)
    \/ \E k \in CreateCalls, ok \in BOOLEAN : ScheduleTask(k, ok)
    \/ \E k \in CreateCalls, ok \in BOOLEAN : AddExecutor(k, ok)
    \/ \E k \in CreateCalls, outcome \in SendOutcomes :
          SendDispatchTask(k, outcome)

\* the initial state of a master on its first start-up
FirstStartUp ==
    Init /\ isInit

\* a master on its first start-up whose user creates workers
DispatchSpec ==
    FirstStartUp /\ [][DispatchNext]_vars

DeliveryNext ==
    \/ DispatchNext
    \/ TickBegin
    \/ TickDeliver
    \/ \E result \in TickResults : TickReturn(result)

\* the same master, polled by its host while the dispatches go on
DeliverySpec ==
    FirstStartUp /\ [][DeliveryNext]_vars

\* the CreateWorker calls whose workers are followed through their life
LifeCalls == {"u1", "u2"}

\* the dispatches of LifeCalls, the heartbeats of their workers (sent by
\* the executor the scheduler chose), the timeout checker and Tick
LifeNext ==
    \/ \E k \in LifeCalls, configOK \in BOOLEAN : CreateWorker(k, configOK)
    \/ \E k \in LifeCalls, ok \in BOOLEAN : ScheduleTask(k, ok)
    \/ \E k \in LifeCalls, ok \in BOOLEAN : AddExecutor(k, ok)
    \/ \E k \in LifeCalls, outcome \in SendOutcomes :
          SendDispatchTask(k, outcome)
    \/ \E k \in LifeCalls : HandleHeartbeat(k, OwnEpoch, "e1")
    \/ checkWorkerEntriesOnce
    \/ AdvanceClock
    \/ TickBegin
    \/ TickDeliver
    \/ \E result \in TickResults : TickReturn(result)

\* a master on its first start-up: workers are dispatched, heartbeat or
\* fall silent, and the host polls the master
LifeSpec ==
    FirstStartUp /\ [][LifeNext]_vars

\* ------------------------------------------------------------------------
\* The manager in state Ready with its goroutines scheduled fairly: the
\* ticker of runBackgroundChecker keeps firing, time passes, the host keeps
\* calling Tick, and a Tick whose context is not done receives an event
\* that is ready (the default case of its select is not taken then).
\* ------------------------------------------------------------------------
LiveNext ==
    \/ \E w \in Workers : BeforeStartingWorker(w, NodeOf(w))
    \/ \E w \in Workers : HandleHeartbeat(w, OwnEpoch, NodeOf(w))
    \/ checkWorkerEntriesOnce
    \/ AdvanceClock
    \/ TickBegin
    \/ TickDeliver
    \/ \E result \in TickResults : TickReturn(result)

LiveSpec ==
    /\ FirstStartUp
    /\ [][LiveNext]_vars
    /\ WF_vars(checkWorkerEntriesOnce)
    /\ WF_vars(AdvanceClock)
    /\ WF_vars(TickBegin)
    /\ SF_vars(TickDeliver)

\* ------------------------------------------------------------------------
\* DefaultBaseMaster.Init: doInit, refreshMetadata, the user's callback,
\* markStatusCodeInMetadata. Every call into the metadata store or into the
\* user's code can fail; the process can die at any point and be restarted.
\* ------------------------------------------------------------------------
\* what the actions of Init leave alone
initRest == <<state, workerEntries, eventQueue, allWorkersReady, errCenter,
              panicked, now, isInit, persisted, initPc, timerStart, tickPc,
              checkerAlive, dispatch, nStatus, delivered, offlineFrom,
              timedOut, lastOp, closed, createWorkerQuota, calls, errCh,
              errLog, pollLog, pollTicks, closeResult, staleMaster, mu>>

\* metaClient.Load: the MasterMeta record of this master
LoadMasterMeta ==
    [StatusCode |-> metaKV.StatusCode, Epoch |-> metaKV.Epoch]

\* metaKVClient.GenEpoch(): the next value of the store's counter
GenEpoch ==
    metaKV.counter + 1

\* mutant: the record is marked as initialised when it is refreshed
RefreshedMeta_MarkInit(meta, epoch) ==
    [meta EXCEPT !.Epoch = epoch, !.StatusCode = "Init"]

\* mutant: the loaded record is stored back as it is
RefreshedMeta_KeepEpoch(meta, epoch) ==
    meta

\* "We should update the master data to reflect our current information"
RefreshedMeta(meta, epoch) ==
    [meta EXCEPT !.Epoch = epoch]

\* mutant: the test of the status code is inverted
IsFirstStartUp_Inverted(meta) ==
    meta.StatusCode # "Uninit"

\* isInit = masterMeta.StatusCode == MasterStatusUninit
IsFirstStartUp(meta) ==
    meta.StatusCode = "Uninit"

\* the epoch the heartbeat handler puts into its pongs
PongEpoch ==
    baseMaster.currentEpoch

InitFails ==
    /\ baseMaster' = [baseMaster EXCEPT !.pc = "failed"]
    /\ UNCHANGED metaKV

\* the process is started (again) and Init is called
StartMaster ==
    /\ Len(inits) + 1 < MaxInits \/ baseMaster.pc = "idle"
    /\ inits' = IF baseMaster.pc = "idle" THEN inits
                ELSE Append(inits, baseMaster)
    /\ baseMaster' = [NotStarted EXCEPT !.pc = "load"]
    /\ UNCHANGED metaKV
    /\ UNCHANGED initRest

\* refreshMetadata: metaClient.Load
RefreshLoad(ok) ==
    /\ baseMaster.pc = "load"
    /\ IF ok
       THEN /\ baseMaster' = [baseMaster EXCEPT !.pc = "genEpoch",
                                                !.loaded = LoadMasterMeta]
            /\ UNCHANGED metaKV
       ELSE InitFails
    /\ UNCHANGED <<inits, initRest>>

\* refreshMetadata: metaKVClient.GenEpoch
RefreshGenEpoch(ok) ==
    /\ baseMaster.pc = "genEpoch"
    /\ IF ok
       THEN /\ metaKV' = [metaKV EXCEPT !.counter = GenEpoch]
            /\ baseMaster' = [baseMaster EXCEPT !.pc = "store",
                                                !.epoch = GenEpoch]
       ELSE InitFails
    /\ UNCHANGED <<inits, initRest>>

\* refreshMetadata: metaClient.Store of the refreshed record
RefreshStore(ok) ==
    /\ baseMaster.pc = "store"
    /\ IF ok
       THEN LET meta == RefreshedMeta(baseMaster.loaded, baseMaster.epoch)
            IN  /\ metaKV' = [metaKV EXCEPT !.StatusCode = meta.StatusCode,
                                            !.Epoch = meta.Epoch]
                /\ baseMaster' = [baseMaster EXCEPT !.pc = "newManager",
                                                    !.stored = meta.Epoch]
       ELSE InitFails
    /\ UNCHANGED <<inits, initRest>>

\* the rest of doInit: currentEpoch.Store, deps.Provide, NewWorkerManager,
\* registerMessageHandlers, startBackgroundTasks
DoInit(failure) ==
    /\ baseMaster.pc = "newManager"
    /\ baseMaster' = [baseMaster EXCEPT
           !.currentEpoch = baseMaster.epoch,
           !.wmEpoch = IF failure = "Provide" THEN 0 ELSE baseMaster.epoch,
           !.wmIsInit = IF failure = "Provide" THEN FALSE
                        ELSE IsFirstStartUp(baseMaster.loaded),
           !.doInitOK = (failure = "none"),
           !.pc = IF failure = "none" THEN "callback" ELSE "failed"]
    /\ UNCHANGED <<metaKV, inits, initRest>>

\* Init: m.Impl.InitImpl or m.Impl.OnMasterRecovered
CallImpl(ok) ==
    /\ baseMaster.pc = "callback"
    /\ baseMaster' = [baseMaster EXCEPT
           !.userCalls = Append(@, IF IsFirstStartUp(baseMaster.loaded)
                                   THEN "InitImpl" ELSE "OnMasterRecovered"),
           !.callbackErr = ~ok,
           !.pc = IF ok THEN "mark" ELSE "failed"]
    /\ UNCHANGED <<metaKV, inits, initRest>>

\* markStatusCodeInMetadata: metaClient.Load
MarkLoad(ok) ==
    /\ baseMaster.pc = "mark"
    /\ IF ok
       THEN /\ baseMaster' = [baseMaster EXCEPT !.pc = "markStore",
                                                !.marked = LoadMasterMeta]
            /\ UNCHANGED metaKV
       ELSE InitFails
    /\ UNCHANGED <<inits, initRest>>

\* masterMeta.StatusCode = code
MarkedMeta(meta, code) ==
    [meta EXCEPT !.StatusCode = code]

\* Init: markStatusCodeInMetadata(MasterStatusInit) stores the record it
\* loaded with the new status code, then Init returns nil
MarkStatusCodeInMetadata(ok) ==
    /\ baseMaster.pc = "markStore"
    /\ IF ok
       THEN LET meta == MarkedMeta(baseMaster.marked, "Init")
            IN  /\ metaKV' = [metaKV EXCEPT !.StatusCode = meta.StatusCode,
                                            !.Epoch = meta.Epoch]
                /\ baseMaster' = [baseMaster EXCEPT !.pc = "done"]
       ELSE InitFails
    /\ UNCHANGED <<inits, initRest>>

InitNext ==
    \/ StartMaster
    \/ \E ok \in BOOLEAN : RefreshLoad(ok)
    \/ \E ok \in BOOLEAN : RefreshGenEpoch(ok)
    \/ \E ok \in BOOLEAN : RefreshStore(ok)
    \/ \E failure \in {"none", "Provide", "RegisterHandler"} : DoInit(failure)
    \/ \E ok \in BOOLEAN : CallImpl(ok)
    \/ \E ok \in BOOLEAN : MarkLoad(ok)
    \/ \E ok \in BOOLEAN : MarkStatusCodeInMetadata(ok)

\* a master that is started, initialised and restarted
InitSpec ==
    FirstStartUp /\ [][InitNext]_vars

\* ------------------------------------------------------------------------
\* A stale instance of the same masterID: a process that was replaced but
\* has not stopped yet runs the same Init against the same metadata store.
\* Of Init only the calls into the store are followed: refreshMetadata
\* (Load, GenEpoch, Store) and markStatusCodeInMetadata (Load, Store).
\* ------------------------------------------------------------------------
\* what the steps of the stale instance leave alone
staleRest == <<state, workerEntries, eventQueue, allWorkersReady, errCenter,
               panicked, now, isInit, persisted, initPc, timerStart, tickPc,
               checkerAlive, dispatch, nStatus, delivered, offlineFrom,
               timedOut, lastOp, closed, createWorkerQuota, calls, errCh,
               errLog, pollLog, pollTicks, closeResult, baseMaster, inits,
               mu>>

\* Init is called in the stale instance
StaleStart ==
    /\ staleMaster.pc = "idle"
    /\ staleMaster' = [staleMaster EXCEPT !.pc = "load"]
    /\ UNCHANGED <<metaKV, staleRest>>

\* a call of the stale instance into the store, or its callback, fails
StaleFails ==
    /\ staleMaster' = [staleMaster EXCEPT !.pc = "failed"]
    /\ UNCHANGED metaKV

\* refreshMetadata of the stale instance: metaClient.Load
StaleRefreshLoad(ok) ==
    /\ staleMaster.pc = "load"
    /\ IF ok
       THEN /\ staleMaster' = [staleMaster EXCEPT !.pc = "genEpoch",
                                                  !.loaded = LoadMasterMeta]
            /\ UNCHANGED metaKV
       ELSE StaleFails
    /\ UNCHANGED staleRest

\* refreshMetadata of the stale instance: metaKVClient.GenEpoch
StaleRefreshGenEpoch(ok) ==
    /\ staleMaster.pc = "genEpoch"
    /\ IF ok
       THEN /\ metaKV' = [metaKV EXCEPT !.counter = GenEpoch]
            /\ staleMaster' = [staleMaster EXCEPT !.pc = "store",
                                                  !.epoch = GenEpoch]
       ELSE StaleFails
    /\ UNCHANGED staleRest

\* refreshMetadata of the stale instance: metaClient.Store; the rest of
\* doInit and the user's callback follow and do not touch the store
StaleRefreshStore(ok) ==
    /\ staleMaster.pc = "store"
    /\ IF ok
       THEN LET meta == RefreshedMeta(staleMaster.loaded, staleMaster.epoch)
            IN  /\ metaKV' = [metaKV EXCEPT !.StatusCode = meta.StatusCode,
                                            !.Epoch = meta.Epoch]
                /\ staleMaster' = [staleMaster EXCEPT !.pc = "mark",
                                                      !.stored = meta.Epoch]
       ELSE StaleFails
    /\ UNCHANGED staleRest

\* markStatusCodeInMetadata of the stale instance: metaClient.Load
StaleMarkLoad(ok) ==
    /\ staleMaster.pc = "mark"
    /\ IF ok
       THEN /\ staleMaster' = [staleMaster EXCEPT !.pc = "markStore",
                                                  !.marked = LoadMasterMeta]
            /\ UNCHANGED metaKV
       ELSE StaleFails
    /\ UNCHANGED staleRest

\* markStatusCodeInMetadata of the stale instance: metaClient.Store
StaleMarkStore(ok) ==
    /\ staleMaster.pc = "markStore"
    /\ IF ok
       THEN LET meta == MarkedMeta(staleMaster.marked, "Init")
            IN  /\ metaKV' = [metaKV EXCEPT !.StatusCode = meta.StatusCode,
                                            !.Epoch = meta.Epoch]
                /\ staleMaster' = [staleMaster EXCEPT !.pc = "done"]
       ELSE StaleFails
    /\ UNCHANGED staleRest

TwoMastersNext ==
    \/ InitNext
    \/ StaleStart
    \/ \E ok \in BOOLEAN : StaleRefreshLoad(ok)
    \/ \E ok \in BOOLEAN : StaleRefreshGenEpoch(ok)
    \/ \E ok \in BOOLEAN : StaleRefreshStore(ok)
    \/ \E ok \in BOOLEAN : StaleMarkLoad(ok)
    \/ \E ok \in BOOLEAN : StaleMarkStore(ok)

\* two instances of one masterID run Init against the same store
TwoMastersSpec ==
    FirstStartUp /\ [][TwoMastersNext]_vars

\* ------------------------------------------------------------------------
\* DefaultBaseMaster.OnError, Poll and Close
\* ------------------------------------------------------------------------
\* errors.Cause(err) == context.Canceled
IsCanceled(err) ==
    err = "Canceled"

\* DefaultBaseMaster.OnError(err): a non-blocking send on errCh
MasterOnError(err) ==
    /\ Len(errLog) < MaxErrors
    /\ errLog' = Append(errLog, err)
    /\ errCh' = IF ~IsCanceled(err) /\ errCh = NoError THEN err ELSE errCh
    /\ UNCHANGED <<pollLog, pollTicks, closeResult, staleMaster, mu>>
    /\ UNCHANGED <<wmVars, closed, createWorkerQuota, calls, metaKV,
                   baseMaster, inits>>

\* mutant: doPoll does not look at closeCh
Poll_IgnoreClose ==
    /\ Len(pollLog) < MaxPolls
    /\ eventQueue = << >> /\ errCenter = NoError
    /\ \/ /\ errCh # NoError
          /\ pollLog' = Append(pollLog, errCh)
          /\ pollTicks' = Append(pollTicks, FALSE)
          /\ errCh' = NoError
       \/ /\ errCh = NoError
          /\ pollLog' = Append(pollLog, NoError)
          /\ pollTicks' = Append(pollTicks, TRUE)
          /\ UNCHANGED errCh
    /\ UNCHANGED <<errLog, closeResult, staleMaster, mu>>
    /\ UNCHANGED <<wmVars, closed, createWorkerQuota, calls, metaKV,
                   baseMaster, inits>>

\* Poll, with no event pending in the Worker Manager. The select of doPoll
\* takes one of its ready cases: it receives the error from errCh, or it
\* sees closeCh closed; when neither is ready it takes the default case and
\* goes on to CheckError, to Tick and to the user's Tick, which return nil
Poll ==
    /\ Len(pollLog) < MaxPolls
    /\ eventQueue = << >> /\ errCenter = NoError
    /\ \/ /\ errCh # NoError
          /\ pollLog' = Append(pollLog, errCh)
          /\ pollTicks' = Append(pollTicks, FALSE)
          /\ errCh' = NoError
       \/ /\ closed
          /\ pollLog' = Append(pollLog, "ErrMasterClosed")
          /\ pollTicks' = Append(pollTicks, FALSE)
          /\ UNCHANGED errCh
       \/ /\ errCh = NoError /\ ~closed
          /\ pollLog' = Append(pollLog, NoError)
          /\ pollTicks' = Append(pollTicks, TRUE)
          /\ UNCHANGED errCh
    /\ UNCHANGED <<errLog, closeResult, staleMaster, mu>>
    /\ UNCHANGED <<wmVars, closed, createWorkerQuota, calls, metaKV,
                   baseMaster, inits>>

ErrNext ==
    \/ \E err \in ErrValues : MasterOnError(err)
    \/ Poll

\* components report errors while the host polls the master
ErrSpec ==
    FirstStartUp /\ [][ErrNext]_vars

\* Close(ctx): CloseImpl; if it fails its error is returned, else doClose:
\* close(closeCh), wg.Wait(), Clean
Close(closeImplOK) ==
    /\ panicked = "none"
    /\ ~closed
    /\ closed' = closeImplOK
    /\ closeResult' = IF closeImplOK THEN NoError ELSE "ErrCloseImpl"
    /\ lastOp' = Op("Close", "-", 0)
    /\ UNCHANGED <<state, workerEntries, eventQueue, allWorkersReady,
                   errCenter, panicked, now, isInit, persisted, initPc,
                   timerStart, tickPc, checkerAlive, dispatch, nStatus,
                   delivered, offlineFrom, timedOut>>
    /\ UNCHANGED <<createWorkerQuota, calls, metaKV, baseMaster, inits,
                   errCh, errLog, pollLog, pollTicks, staleMaster, mu>>

CloseNext ==
    \/ Next
    \/ \E closeImplOK \in BOOLEAN : Close(closeImplOK)

\* the Worker Manager of a master that is closed at some point
CloseSpec ==
    Init /\ [][CloseNext]_vars

ShutdownNext ==
    \/ ErrNext
    \/ \E closeImplOK \in BOOLEAN : Close(closeImplOK)

\* components report errors and the host polls the master and closes it
ShutdownSpec ==
    FirstStartUp /\ [][ShutdownNext]_vars

\* ------------------------------------------------------------------------
\* The heartbeat handler registered by registerMessageHandlers
\* ------------------------------------------------------------------------
\* what messageSender.SendToNode can return for the pong: delivered, not
\* delivered (the send would block), or an error
SendResults == {"ok", "wouldBlock", "error"}

\* lastOp of a ping that the handler did not hand to the Worker Manager
PingOp(w, epoch, sent) ==
    [op |-> "HeartbeatPing", w |-> w, epoch |-> epoch, pong |-> sent]

\* the handler of HeartbeatPingTopic: send the pong, return if it could not
\* be sent, else call HandleHeartbeat
HeartbeatPingHandler(w, msgEpoch, sender, sent) ==
    IF sent = "ok"
    THEN HandleHeartbeat(w, msgEpoch, sender)
    ELSE /\ panicked = "none"
         /\ lastOp' = PingOp(w, msgEpoch, sent)
         /\ UNCHANGED <<state, workerEntries, eventQueue, allWorkersReady,
                        errCenter, panicked, now, isInit, persisted, initPc,
                        timerStart, tickPc, checkerAlive, dispatch, nStatus,
                        delivered, offlineFrom, timedOut>>
         /\ UNCHANGED baseVars

HeartbeatNext ==
    \/ \E w \in Workers, e \in MsgEpochs, sent \in SendResults :
          HeartbeatPingHandler(w, e, NodeOf(w), sent)
    \/ \E w \in Workers : BeforeStartingWorker(w, NodeOf(w))
    \/ TickBegin
    \/ TickDeliver
    \/ \E result \in TickResults : TickReturn(result)
    \/ checkWorkerEntriesOnce
    \/ AdvanceClock

\* a master on its first start-up whose workers send heartbeat pings
HeartbeatSpec ==
    FirstStartUp /\ [][HeartbeatNext]_vars

\* ------------------------------------------------------------------------
\* Properties
\* ------------------------------------------------------------------------
\* the positions of the events of type tp in a per-worker log
Positions(log, tp) ==
    {i \in 1..Len(log) : log[i] = tp}

\* the number of events of type tp queued for worker w
Queued(queue, w, tp) ==
    Cardinality({i \in 1..Len(queue) :
                    queue[i].WorkerID = w /\ queue[i].Tp = tp})

\* w was created under this master through the dispatch pipeline
CreatedHere(w) ==
    dispatch[w] # "none"

\* w was restored from the metadata store by InitAfterRecover
Restored(w) ==
    ~isInit /\ persisted[w] \notin {"absent", "Finished"}

\* C1: dispatch exclusivity. If WorkerDispatchFailed was delivered for a
\* worker, no WorkerOnline, WorkerOffline or WorkerStatusUpdated is delivered
\* for that worker anywhere in the execution.
C1_DispatchExclusivity ==
    \A w \in Workers :
       Positions(delivered[w], workerDispatchFailedEvent) # {}
           => \A i \in 1..Len(delivered[w]) :
                 delivered[w][i] = workerDispatchFailedEvent

C3_OrderingWithinWorker ==
    \A w \in Workers :
       CreatedHere(w) =>
          \A i \in Positions(delivered[w], workerStatusUpdatedEvent) :
             /\ \E j \in Positions(delivered[w], workerOnlineEvent) : j < i
             /\ \A j \in Positions(delivered[w], workerOfflineEvent) : i < j

\* WorkerOnline is never delivered after the WorkerOffline of the same worker
NoOnlineAfterOffline ==
    \A w \in Workers :
       \A i \in Positions(delivered[w], workerOnlineEvent) :
          \A j \in Positions(delivered[w], workerOfflineEvent) : i < j

BecomesOffline(w) ==
    /\ w \in DOMAIN workerEntries /\ w \in DOMAIN workerEntries'
    /\ workerEntries[w].state \in {"Created", "Online"}
    /\ workerEntries'[w].state = "Offline"

\* no worker ID has more than one WorkerOffline delivered
AtMostOneOfflineDelivered ==
    \A w \in Workers :
       Cardinality(Positions(delivered[w], workerOfflineEvent)) <= 1

LastMessage ==
    lastOp.op \in {"HandleHeartbeat", "OnWorkerStatusUpdateMessage"}

\* C6: epoch filtering (newer). Every heartbeat or status message with an
\* epoch greater than the master's own terminates the master, in every
\* manager state.
C6_NewerEpochIsFatal ==
    LastMessage /\ lastOp.epoch > OwnEpoch
        => panicked = "StaleMasterStillRunning"

\* C7: epoch filtering (stale). A heartbeat or status message with an epoch
\* smaller than the master's own leaves the worker entries, the manager
\* state, the allWorkersReady latch and the event queue unchanged.
C7_StaleMessageDropped ==
    [][(lastOp'.op \in {"HandleHeartbeat", "OnWorkerStatusUpdateMessage"}
          /\ lastOp'.epoch # 0 /\ lastOp'.epoch < OwnEpoch)
         => UNCHANGED <<workerEntries, state, allWorkersReady,
                        eventQueue>>]_vars

\* C7 witness: a stale heartbeat was handled, in state Ready, for a worker
\* whose entry is Created (a heartbeat of the current epoch would have made
\* it Online and enqueued WorkerOnline).
C7_Witness ==
    \E w \in Workers :
       /\ lastOp = Op("HandleHeartbeat", w, OwnEpoch - 1)
       /\ state = "Ready"
       /\ w \in DOMAIN workerEntries
       /\ workerEntries[w].state = "Created"

\* InitAfterRecover has returned nil: no non-Finished worker was persisted,
\* or every expected worker heart-beat, or the timeout plus grace elapsed
RecoveryFinished ==
    /\ initPc = "done"
    /\ \/ \A w \in Workers : persisted[w] \in {"absent", "Finished"}
       \/ allWorkersReady
       \/ now >= timerStart
                    + (WorkerTimeoutDuration + WorkerTimeoutGracefulDuration)

\* C8: recovery readiness. IsInitialized() is true iff the manager was
\* started with isInit, or recovery has finished.
C8_RecoveryReadiness ==
    IsInitialized <=> (isInit \/ RecoveryFinished)

\* C8 witness: a restarted master whose recovery ended by the timeout
C8_Witness ==
    ~isInit /\ IsInitialized /\ timedOut # {} /\ ~allWorkersReady

C10_RecoveryTimeout ==
    /\ [][(lastOp'.op = "InitTimeout" /\ initPc = "wait")
            => /\ \A w \in DOMAIN workerEntries :
                    /\ workerEntries[w].state = "Wait"
                          => GetWorkers'[w] = "tombstone"
                    /\ workerEntries[w].state = "Online"
                          => GetWorkers'[w] = "running"
               /\ eventQueue' = eventQueue]_vars
    /\ [](\A w \in timedOut :
             /\ Positions(delivered[w], workerOfflineEvent) = {}
             /\ Queued(eventQueue, w, workerOfflineEvent) = 0
             /\ w \in DOMAIN workerEntries => GetWorkers[w] = "tombstone")

\* C10 witness: scenario S3. w1 heart-beat, w2 did not; after the timeout the
\* manager is Ready and GetWorkers() is {w1: running, w2: tombstone}.
C10_Witness ==
    /\ state = "Ready"
    /\ timedOut = {"w2"}
    /\ DOMAIN workerEntries = {"w1", "w2"}
    /\ GetWorkers["w1"] = "running"
    /\ GetWorkers["w2"] = "tombstone"

\* InitAfterRecover was called and has not returned yet
InitAfterRecoverRunning ==
    initPc \in {"load", "wait", "setReady"}

\* C11: InitAfterRecover does not block forever. On a restarted master it
\* eventually returns, nil with the manager Ready or the cancellation error,
\* so IsInitialized() eventually becomes true unless recovery is cancelled or
\* LoadAllWorkers fails. Stated on finite runs: as long as InitAfterRecover
\* has not returned, the process is still running, so that the latch, the
\* timer or the context can end the wait; only a message of a newer master
\* may stop it.
C11_InitAfterRecoverReturns ==
    InitAfterRecoverRunning
        => panicked \in {"none", "StaleMasterStillRunning"}

\* every CreateWorker call has returned and every dispatch goroutine ended
AllCallsFinished ==
    \A k \in CreateCalls : calls[k].pc \in {"returned", "finished"}

\* C12: quota is released in all paths. Every CreateWorker call that
\* acquired a unit of the quota releases it exactly once, whatever the
\* outcome; after all calls have finished no unit is held.
C12_QuotaReleased ==
    /\ \A k \in CreateCalls :
          calls[k].pc \in {"returned", "finished"} /\ calls[k].acquired
              => calls[k].released = 1
    /\ AllCallsFinished => createWorkerQuota = 0

\* C13: at no time are more than maxCreateWorkerConcurrency dispatches in
\* flight; a CreateWorker call that cannot acquire quota returns
\* ConcurrencyExceeded with an empty worker ID, starts no dispatch and
\* inserts no entry.
C13_ConcurrencyBound ==
    /\ Cardinality(InFlight) <= maxCreateWorkerConcurrency
    /\ createWorkerQuota <= maxCreateWorkerConcurrency
    /\ \A k \in CreateCalls :
          calls[k].err = "ErrMasterConcurrencyExceeded"
              => /\ calls[k].workerID = ""
                 /\ calls[k].pc = "returned"
                 /\ ~calls[k].acquired
                 /\ k \notin DOMAIN workerEntries

\* C13 witness: a call was refused while the quota was taken by dispatches
\* in flight, one of which has inserted its entry
C13_Witness ==
    /\ \E k \in CreateCalls : calls[k].err = "ErrMasterConcurrencyExceeded"
    /\ Cardinality(InFlight) = maxCreateWorkerConcurrency
    /\ DOMAIN workerEntries # {}

\* the number of events of any type queued for worker w
QueuedFor(queue, w) ==
    Cardinality({i \in 1..Len(queue) : queue[i].WorkerID = w})

\* C14: tombstone is terminal. Once an entry is in state Tombstone, no
\* further event of any type is enqueued or delivered for that worker ID,
\* whatever heartbeats, status messages, checker rounds or
\* AbortCreatingWorker calls follow.
C14_TombstoneTerminal ==
    [][\A w \in Workers :
          (w \in DOMAIN workerEntries /\ IsTombstone(workerEntries[w]))
              => /\ delivered'[w] = delivered[w]
                 /\ QueuedFor(eventQueue', w) <= QueuedFor(eventQueue, w)]_vars

\* the step calls enqueueEvent: a first heartbeat of a Created entry, an
\* AbortCreatingWorker, or a checker round that finds an entry timed out or
\* with a pending status notification
EnqueueAttempt ==
    \/ \E w \in Workers :
          /\ lastOp' = Op("HandleHeartbeat", w, OwnEpoch)
          /\ state = "Ready"
          /\ w \in DOMAIN workerEntries
          /\ IsFirstHeartbeat(workerEntries[w])
    \/ lastOp'.op = "AbortCreatingWorker"
    \/ /\ lastOp'.op = "checkWorkerEntriesOnce"
       /\ state = "Ready"
       /\ \E w \in DOMAIN workerEntries :
             /\ ~SkipEntry(workerEntries[w])
             /\ ~NotTimedOut(workerEntries[w]) \/ workerEntries[w].pending

\* an enqueue attempt on a full queue fails with MasterTooManyPendingEvents
\* and leaves the queue as it is
FullQueueRejects ==
    [][(Len(eventQueue) = QueueCap /\ EnqueueAttempt)
          => /\ errCenter' = "ErrMasterTooManyPendingEvents"
             /\ eventQueue' = eventQueue]_vars

\* a Tick that starts after the failure returns the error and delivers
\* nothing
NextTickReturnsError ==
    [][(errCenter = "ErrMasterTooManyPendingEvents" /\ tickPc = "idle")
          => tickPc' = "idle" /\ delivered' = delivered]_vars

\* C15 as stated: backpressure. When the queue is full and nothing is
\* consumed during the enqueue bound, the next enqueue attempt fails with
\* MasterTooManyPendingEvents, and that error is returned by the next Tick
\* and by every later Tick before any further event is delivered.
C15_Backpressure ==
    /\ FullQueueRejects
    /\ NextTickReturnsError
    /\ [][errCenter = "ErrMasterTooManyPendingEvents"
             => delivered' = delivered]_vars

\* C15 amended: the enqueue attempt on the full queue fails with
\* MasterTooManyPendingEvents, and every Tick that starts after the failure
\* returns that error without delivering an event; a Tick that was already
\* running when the enqueue failed can still deliver queued events before it
\* returns.
C15_BackpressureAmended ==
    /\ FullQueueRejects
    /\ NextTickReturnsError

\* C15 witness: the queue is full, an enqueue has failed, and the Tick that
\* has just been called returned the error
C15_Witness ==
    /\ Len(eventQueue) = QueueCap
    /\ errCenter = "ErrMasterTooManyPendingEvents"
    /\ lastOp = Op("TickBegin", "-", 0)
    /\ tickPc = "idle"

\* the step invokes exactly one user callback: that of the event at the
\* head of the queue
OneCallback ==
    /\ eventQueue # << >>
    /\ eventQueue' = Tail(eventQueue)
    /\ delivered' = [delivered EXCEPT
           ![Head(eventQueue).WorkerID] = Append(@, Head(eventQueue).Tp)]

\* C16: user callbacks are invoked only inside Tick, on the thread that
\* calls Poll, one at a time; the heartbeat handler, the status handler, the
\* timeout checker and the dispatch goroutines only enqueue events.
C16_CallbacksOnlyInTick ==
    [][/\ delivered' # delivered
            => /\ tickPc = "running" /\ tickPc' = "running"
               /\ lastOp'.op = "TickDeliver"
               /\ OneCallback
       /\ lastOp'.op \in {"HandleHeartbeat", "OnWorkerStatusUpdateMessage",
                          "checkWorkerEntriesOnce", "AbortCreatingWorker",
                          "BeforeStartingWorker"}
            => /\ delivered' = delivered
               /\ tickPc' = tickPc
               /\ \/ eventQueue' = eventQueue
                  \/ /\ Len(eventQueue') > Len(eventQueue)
                     /\ SubSeq(eventQueue', 1, Len(eventQueue)) = eventQueue]_vars

\* C16 witness: while a Tick is running and has delivered an event of w1,
\* the heartbeat handler has just enqueued WorkerOnline for w2, which is
\* not delivered yet
C16_Witness ==
    /\ tickPc = "running"
    /\ delivered["w1"] # << >>
    /\ delivered["w2"] = << >>
    /\ lastOp = Op("HandleHeartbeat", "w2", OwnEpoch)
    /\ Queued(eventQueue, "w2", workerOnlineEvent) = 1

\* the Init calls so far, in order; the last one is that of the running
\* process
AllInits ==
    inits \o <<baseMaster>>

\* Init has returned in the process described by m
Returned(m) ==
    m.pc \in {"done", "failed"}

\* C17: epoch monotonicity. Successive Init calls on the same masterID,
\* also across process restarts, yield strictly increasing epochs, and the
\* epoch given to the Worker Manager and sent in pongs equals the epoch
\* stored in MasterMeta by that Init.
C17_EpochMonotonicity ==
    /\ \A i, j \in 1..Len(AllInits) :
          (i < j /\ AllInits[i].epoch # 0 /\ AllInits[j].epoch # 0)
              => AllInits[i].epoch < AllInits[j].epoch
    /\ \A i \in 1..Len(AllInits) :
          AllInits[i].wmEpoch # 0
              => /\ AllInits[i].wmEpoch = AllInits[i].stored
                 /\ AllInits[i].currentEpoch = AllInits[i].stored
    /\ baseMaster.wmEpoch # 0
          => PongEpoch = metaKV.Epoch /\ baseMaster.wmEpoch = metaKV.Epoch

\* C17 witness: the first Init returned nil, the second process died after
\* GenEpoch and before Store, and the third Init returned nil with a manager
\* whose epoch is larger than that of the first
C17_Witness ==
    /\ Len(inits) = 2
    /\ inits[1].pc = "done"
    /\ inits[2].pc = "store"
    /\ baseMaster.pc = "done"
    /\ baseMaster.wmEpoch > inits[2].epoch
    /\ inits[2].epoch > inits[1].wmEpoch

\* the callback Init chooses for the record it loaded
ChosenCallback(m) ==
    IF m.loaded.StatusCode = "Uninit" THEN "InitImpl" ELSE "OnMasterRecovered"

\* once an Init has returned nil the persisted StatusCode is Init and no
\* later Init calls InitImpl
NeverInitImplAgain ==
    /\ (\E i \in 1..Len(AllInits) : AllInits[i].pc = "done")
          => metaKV.StatusCode = "Init"
    /\ \A i, j \in 1..Len(AllInits) :
          (i < j /\ AllInits[i].pc = "done")
              => \A c \in 1..Len(AllInits[j].userCalls) :
                    AllInits[j].userCalls[c] = "OnMasterRecovered"

\* C18 as stated: Init calls exactly one of InitImpl and OnMasterRecovered,
\* InitImpl iff the loaded MasterMeta had StatusCode Uninit; after an Init
\* that returned nil the persisted StatusCode is Init, and every later Init
\* calls OnMasterRecovered and never InitImpl.
C18_ExactlyOneCallback ==
    /\ \A i \in 1..Len(AllInits) :
          Returned(AllInits[i])
              => AllInits[i].userCalls = <<ChosenCallback(AllInits[i])>>
    /\ NeverInitImplAgain

\* C18 amended: an Init whose doInit succeeds calls exactly one of InitImpl
\* and OnMasterRecovered, InitImpl iff the loaded MasterMeta had StatusCode
\* Uninit; an Init whose doInit fails calls neither. After an Init that
\* returned nil the persisted StatusCode is Init, and no later Init calls
\* InitImpl: it calls OnMasterRecovered if its doInit succeeds.
C18_ExactlyOneCallbackAmended ==
    /\ \A i \in 1..Len(AllInits) :
          /\ Len(AllInits[i].userCalls) <= 1
          /\ Returned(AllInits[i]) =>
                AllInits[i].userCalls =
                    IF AllInits[i].doInitOK
                    THEN <<ChosenCallback(AllInits[i])>>
                    ELSE << >>
    /\ NeverInitImplAgain

\* C18 witness: the first Init called InitImpl and returned nil, the second
\* failed in doInit and called nothing, the third called OnMasterRecovered
C18_Witness ==
    /\ Len(inits) = 2
    /\ inits[1].pc = "done" /\ inits[1].userCalls = <<"InitImpl">>
    /\ inits[2].pc = "failed" /\ inits[2].userCalls = << >>
    /\ baseMaster.pc = "done"
    /\ baseMaster.userCalls = <<"OnMasterRecovered">>

\* the first error given to OnError that is not a cancellation
RECURSIVE FirstError(_)
FirstError(log) ==
    IF log = << >> THEN NoError
    ELSE IF IsCanceled(Head(log)) THEN FirstError(Tail(log))
    ELSE Head(log)

\* C19: OnError keeps only the first error per master lifetime. Of all
\* non-cancellation errors passed to OnError, over any interleaving of
\* OnError and Poll calls, only the first one can ever be returned by Poll;
\* cancellation errors are never returned by Poll.
C19_FirstErrorOnly ==
    \A i \in 1..Len(pollLog) :
       /\ ~IsCanceled(pollLog[i])
       /\ pollLog[i] \in {NoError, FirstError(errLog)}

\* C20: after Close has returned, the background timeout checker of the
\* Worker Manager has stopped: no later round of the checker marks an entry
\* Offline or enqueues an event.
C20_CheckerStoppedAfterClose ==
    [][(closed /\ lastOp'.op = "checkWorkerEntriesOnce")
          => UNCHANGED <<workerEntries, eventQueue>>]_vars

\* the last element of a non-empty sequence
Last(seq) ==
    seq[Len(seq)]

\* the step is a call of Poll that returns
PollReturns ==
    Len(pollLog') = Len(pollLog) + 1

\* C21 as stated: Close calls the user's CloseImpl, then closes the internal
\* shutdown channel; after Close has returned, every Poll aborts with
\* MasterClosed without calling the Worker Manager's Tick or the user's Tick.
C21_PollAfterClose ==
    /\ [](closeResult # NotCalled => closed)
    /\ [][(closeResult # NotCalled /\ PollReturns)
             => /\ Last(pollLog') = "ErrMasterClosed"
                /\ ~Last(pollTicks')]_vars

\* C21 amended: Close calls CloseImpl; when CloseImpl fails Close returns its
\* error and the shutdown channel stays open; when it succeeds the channel is
\* closed, and after that every Poll aborts with an error, MasterClosed or a
\* fatal error that was pending on the error channel, without calling the
\* Worker Manager's Tick or the user's Tick.
C21_PollAfterCloseAmended ==
    /\ [](closed <=> closeResult = NoError)
    /\ [][(closed /\ PollReturns)
             => /\ \/ Last(pollLog') = "ErrMasterClosed"
                   \/ errCh # NoError /\ Last(pollLog') = errCh
                /\ ~Last(pollTicks')]_vars
    /\ [](\A i \in 1..Len(pollLog) : pollTicks[i] <=> pollLog[i] = NoError)

\* C21 witness: a Poll before Close went through to the user's Tick; after
\* Close one Poll returned MasterClosed and one a pending fatal error
C21_Witness ==
    /\ closed
    /\ pollLog = <<NoError, "ErrMasterClosed", "ErrA">>
    /\ pollTicks = <<TRUE, FALSE, FALSE>>

\* the step is the call AbortCreatingWorker(w, err)
AbortCalled(w, err) ==
    /\ lastOp'.op = "AbortCreatingWorker"
    /\ dispatch[w] # "done" /\ dispatch'[w] = "done"
    /\ err = IF dispatch[w] = "none" THEN "ErrScheduleTask"
             ELSE "ErrDispatchTask"

\* Tick delivers WorkerDispatchFailed of w: while OnWorkerDispatched runs,
\* and at every time after it, GetWorkers() does not contain w
NoEntryAfterDispatchFailed ==
    /\ [][(lastOp'.op = "TickDeliver" /\ tickPc = "running"
             /\ eventQueue # << >>
             /\ Head(eventQueue).Tp = workerDispatchFailedEvent)
            => Head(eventQueue).WorkerID \notin DOMAIN GetWorkers']_vars
    /\ [](\A w \in Workers :
             Positions(delivered[w], workerDispatchFailedEvent) # {}
                 => w \notin DOMAIN GetWorkers)

TombstoneHandleDelivered(w) ==
    /\ lastOp'.op = "TickDeliver" /\ tickPc = "running"
    /\ eventQueue # << >>
    /\ Head(eventQueue).WorkerID = w
    /\ Head(eventQueue).Tp \in {workerOfflineEvent, workerDispatchFailedEvent}

ReasonOf ==
    [Created |-> "ErrWorkerOffline", Init |-> "ErrWorkerOffline",
     Normal |-> "ErrWorkerOffline", Error |-> "ErrWorkerOffline",
     Finished |-> "ErrWorkerFinish", Stopped |-> "ErrWorkerStop"]

\* the events the step has added to the queue
Enqueued ==
    IF Len(eventQueue') > Len(eventQueue)
    THEN SubSeq(eventQueue', Len(eventQueue) + 1, Len(eventQueue'))
    ELSE << >>

\* C24: the reason of a WorkerOffline event is a function of the status
\* code the entry holds when it is marked Offline: Finished gives
\* WorkerFinish, Stopped gives WorkerStop, every other code gives
\* WorkerOffline; a status message accepted after the transition does not
\* change the reason already enqueued.
C24_OfflineReason ==
    [][/\ lastOp'.op = "checkWorkerEntriesOnce"
            => \A i \in 1..Len(Enqueued) :
                  Enqueued[i].Tp = workerOfflineEvent
                      => /\ BecomesOffline(Enqueued[i].WorkerID)
                         /\ Enqueued[i].Err =
                               ReasonOf[workerEntries[Enqueued[i].WorkerID].code]
       /\ lastOp'.op = "OnWorkerStatusUpdateMessage"
            => eventQueue' = eventQueue]_vars

\* C24 witness: w was marked Offline with status code Created, so that
\* WorkerOffline(w) is queued with reason WorkerOffline; the status message
\* accepted since has made the cached code Stopped
C24_Witness ==
    \E w \in Workers, i \in 1..Len(eventQueue) :
       /\ eventQueue[i] =
             masterEvent(workerOfflineEvent, w, "ErrWorkerOffline")
       /\ lastOp = Op("OnWorkerStatusUpdateMessage", w, OwnEpoch)
       /\ w \in DOMAIN workerEntries
       /\ workerEntries[w].state = "Offline"
       /\ workerEntries[w].code = "Stopped"

\* the step is HandleHeartbeat accepting a heartbeat of w: the manager has
\* loaded its metadata, the epoch is the master's own and w has an entry
HeartbeatAccepted(w) ==
    /\ lastOp' = Op("HandleHeartbeat", w, OwnEpoch)
    /\ state # "LoadingMeta"
    /\ w \in DOMAIN workerEntries

\* the step is BeforeStartingWorker inserting the entry of w
EntryInserted(w) ==
    /\ lastOp'.op = "BeforeStartingWorker"
    /\ w \notin DOMAIN workerEntries
    /\ w \in DOMAIN workerEntries'

\* the step marks the entry of w Offline
MarkedOffline(w) ==
    /\ w \in DOMAIN workerEntries'
    /\ workerEntries'[w].state = "Offline"
    /\ w \in DOMAIN workerEntries => workerEntries[w].state # "Offline"

\* C25: timeout bound. An entry is marked Offline only by the timeout
\* checker and only when its ExpireTime is not after the current time;
\* ExpireTime is the time of BeforeStartingWorker or of the last accepted
\* heartbeat plus WorkerTimeoutDuration + WorkerTimeoutGracefulDuration, so
\* a worker is never reported offline earlier than that after its last
\* accepted heartbeat.
C25_TimeoutBound ==
    [][\A w \in Workers :
          /\ MarkedOffline(w)
                => /\ lastOp'.op = "checkWorkerEntriesOnce"
                   /\ w \in DOMAIN workerEntries
                   /\ workerEntries[w].state \in {"Created", "Online"}
                   /\ workerEntries[w].expireAt <= now
          /\ (HeartbeatAccepted(w) \/ EntryInserted(w))
                => workerEntries'[w].expireAt
                      = now + WorkerTimeoutDuration
                            + WorkerTimeoutGracefulDuration
          /\ (/\ w \in DOMAIN workerEntries /\ w \in DOMAIN workerEntries'
              /\ workerEntries'[w].expireAt # workerEntries[w].expireAt)
                => HeartbeatAccepted(w)]_vars

\* C25 witness: w heart-beat at time 0 and not again; the checker has just
\* marked it Offline, exactly when the timeout and the grace had elapsed
C25_Witness ==
    \E w \in Workers :
       /\ lastOp.op = "checkWorkerEntriesOnce"
       /\ w \in DOMAIN workerEntries
       /\ workerEntries[w].state = "Offline"
       /\ offlineFrom[w] = "Online"
       /\ workerEntries[w].expireAt
             = WorkerTimeoutDuration + WorkerTimeoutGracefulDuration
       /\ now = workerEntries[w].expireAt

\* C26: BeforeStartingWorker(id, execID) inserts a new entry in state
\* Created with status code Created and a fresh ExpireTime when id is
\* absent, and panics without modifying the existing entry when id is
\* present; workerEntries never holds two entries for one worker ID.
C26_BeforeStartingWorker ==
    [][\A w \in Workers :
          lastOp' = StartOp(w) =>
             IF w \in DOMAIN workerEntries
             THEN /\ panicked' = "WorkerAlreadyExists"
                  /\ workerEntries' = workerEntries
             ELSE /\ panicked' = "none"
                  /\ DOMAIN workerEntries' = DOMAIN workerEntries \cup {w}
                  /\ \A x \in DOMAIN workerEntries :
                        workerEntries'[x] = workerEntries[x]
                  /\ workerEntries'[w].state = "Created"
                  /\ workerEntries'[w].code = "Created"
                  /\ workerEntries'[w].executorID = NodeOf(w)
                  /\ workerEntries'[w].expireAt
                        = now + WorkerTimeoutDuration
                              + WorkerTimeoutGracefulDuration]_vars

\* C26 witness: BeforeStartingWorker was called with the ID of a worker
\* that is Online; the process panicked and the entry is as it was
C26_Witness ==
    \E w \in Workers :
       /\ lastOp = StartOp(w)
       /\ panicked = "WorkerAlreadyExists"
       /\ w \in DOMAIN workerEntries
       /\ workerEntries[w].state = "Online"
       /\ workerEntries[w].expireAt > now

\* the step is the heartbeat handler receiving a ping of w with the epoch
PingReceived(w, epoch) ==
    \/ lastOp' = Op("HandleHeartbeat", w, epoch)
    \/ \E sent \in SendResults : lastOp' = PingOp(w, epoch, sent)

\* C27: for every heartbeat ping received, the handler replies with a pong
\* and then hands the ping to HandleHeartbeat; no received ping is dropped
\* before it reaches the Worker Manager, so every ping with the current
\* epoch for a known worker refreshes that worker's ExpireTime.
C27_EveryPingHandled ==
    [][\A w \in Workers :
          (PingReceived(w, OwnEpoch) /\ w \in DOMAIN workerEntries)
              => /\ lastOp'.op = "HandleHeartbeat"
                 /\ workerEntries'[w].expireAt
                       = now + WorkerTimeoutDuration
                             + WorkerTimeoutGracefulDuration]_vars

\* C28: a tombstone entry is removed from workerEntries only through the
\* handle-mediated path, removeTombstoneEntry; Tick and the beforeHooks it
\* runs never delete an entry whose state is Tombstone.
C28_TombstoneRemovedByHandleOnly ==
    [][\A w \in Workers :
          (/\ w \in DOMAIN workerEntries
           /\ IsTombstone(workerEntries[w])
           /\ w \notin DOMAIN workerEntries')
              => lastOp' = RemoveOp(w, TRUE)]_vars

\* the order of the steps of one CreateWorker call
PcOrder ==
    {<<"idle", "returned">>, <<"idle", "schedule">>,
     <<"schedule", "addExecutor">>, <<"schedule", "finished">>,
     <<"addExecutor", "send">>, <<"addExecutor", "finished">>,
     <<"send", "finished">>}

\* the steps of the async body happen in their order
StepsInOrder ==
    [][\A k \in CreateCalls :
          calls'[k].pc # calls[k].pc
              => <<calls[k].pc, calls'[k].pc>> \in PcOrder]_vars

SchedulerFailed(k) ==
    calls[k].pc = "finished" /\ calls[k].err = "ErrScheduleTask"

\* the failure of the scheduler is final: no entry is inserted for the ID
\* CreateWorker returned, no later step of the dispatch (no DispatchTask
\* RPC) follows, and WorkerDispatchFailed is queued or delivered at most
\* once, with the scheduler's error
FailedDispatchIsFinal ==
    /\ [][\A k \in CreateCalls :
             /\ SchedulerFailed(k) => SchedulerFailed(k)'
             /\ (SchedulerFailed(k)' /\ ~SchedulerFailed(k))
                   => calls[k].pc = "schedule"]_vars
    /\ [](\A k \in CreateCalls :
             SchedulerFailed(k)
                 => /\ calls[k].workerID = k
                    /\ k \notin DOMAIN workerEntries
                    /\ Queued(eventQueue, k, workerDispatchFailedEvent)
                          + Len(delivered[k]) <= 1
                    /\ \A i \in 1..Len(eventQueue) :
                          eventQueue[i].WorkerID = k
                              => eventQueue[i] = masterEvent(
                                     workerDispatchFailedEvent, k,
                                     "ErrScheduleTask")
                    /\ \A i \in 1..Len(delivered[k]) :
                          delivered[k][i] = workerDispatchFailedEvent)

\* C30 as stated: when the scheduler call fails, no entry is created for
\* the worker ID that CreateWorker returned, no DispatchTask RPC is sent,
\* and exactly one WorkerDispatchFailed carrying the scheduler error is
\* delivered to OnWorkerDispatched (it is queued until Tick delivers it).
C30_SchedulerFailure ==
    /\ FailedDispatchIsFinal
    /\ [](\A k \in CreateCalls :
             SchedulerFailed(k)
                 => Queued(eventQueue, k, workerDispatchFailedEvent)
                       + Len(delivered[k]) = 1)

\* C30 amended: when the scheduler call fails, no entry is created for the
\* worker ID that CreateWorker returned, no DispatchTask RPC is sent, and
\* one WorkerDispatchFailed carrying the scheduler error is enqueued and
\* delivered once, unless the queue is full for the whole enqueue bound:
\* then none is enqueued and MasterTooManyPendingEvents is raised.
C30_SchedulerFailureAmended ==
    /\ FailedDispatchIsFinal
    /\ [][\A k \in CreateCalls :
             (SchedulerFailed(k)' /\ ~SchedulerFailed(k))
                 => \/ eventQueue' = Append(eventQueue, masterEvent(
                           workerDispatchFailedEvent, k, "ErrScheduleTask"))
                    \/ /\ Len(eventQueue) = QueueCap
                       /\ eventQueue' = eventQueue
                       /\ errCenter' = "ErrMasterTooManyPendingEvents"]_vars
    /\ [](\A k \in CreateCalls :
             (SchedulerFailed(k) /\ errCenter = NoError)
                 => Queued(eventQueue, k, workerDispatchFailedEvent)
                       + Len(delivered[k]) = 1)

\* C30 witness: the scheduler refused u1; Tick has delivered its
\* WorkerDispatchFailed and GetWorkers() holds no entry for it, while the
\* dispatch of another worker is about to send its RPC
C30_Witness ==
    /\ SchedulerFailed("u1")
    /\ delivered["u1"] = <<workerDispatchFailedEvent>>
    /\ lastOp.op = "TickDeliver"
    /\ "u1" \notin DOMAIN GetWorkers
    /\ \E k \in CreateCalls : calls[k].pc = "send"

\* executorClient.Send of call k returns with this outcome in this step
SendReturns(k, outcome) ==
    /\ calls[k].pc = "send"
    /\ calls'[k].pc = "finished"
    /\ lastOp' = SendOp(k, outcome)

\* the dispatch of call k ended without an error reported to the manager
DispatchSucceeded(k) ==
    calls[k].pc = "finished" /\ calls[k].err = NoError

\* C31: when the DispatchTask RPC fails with a transport error after the
\* entry was inserted, the manager treats the dispatch as successful: no
\* WorkerDispatchFailed is generated, and the entry stays Created until a
\* heartbeat makes it Online or the timeout makes it Offline; of the
\* outcomes of the RPC only a response with a non-OK code is reported as a
\* failure of the dispatch.
C31_TransportErrorIsSuccess ==
    /\ [][\A k \in LifeCalls :
             /\ SendReturns(k, "transport") \/ SendReturns(k, "OK")
                   => /\ calls'[k].err = NoError
                      /\ UNCHANGED <<workerEntries, eventQueue, errCenter>>
             /\ SendReturns(k, "errorCode")
                   => /\ calls'[k].err = "ErrDispatchTask"
                      /\ UNCHANGED workerEntries
                      /\ \/ eventQueue' = Append(eventQueue, masterEvent(
                                workerDispatchFailedEvent, k,
                                "ErrDispatchTask"))
                         \/ /\ Len(eventQueue) = QueueCap
                            /\ UNCHANGED eventQueue
                            /\ errCenter' = OnError(errCenter,
                                   "ErrMasterTooManyPendingEvents")
             /\ (calls[k].pc = "send" /\ calls'[k].pc # "send")
                   => \E outcome \in SendOutcomes : SendReturns(k, outcome)
             /\ (DispatchSucceeded(k) /\ workerEntries[k].state = "Created")
                   => /\ k \in DOMAIN workerEntries'
                      /\ \/ workerEntries'[k].state = "Created"
                         \/ /\ workerEntries'[k].state = "Online"
                            /\ lastOp' = Op("HandleHeartbeat", k, OwnEpoch)
                         \/ /\ workerEntries'[k].state = "Offline"
                            /\ lastOp'.op = "checkWorkerEntriesOnce"
                            /\ ~NotTimedOut(workerEntries[k])]_vars
    /\ [](\A k \in LifeCalls :
             DispatchSucceeded(k)
                 => /\ k \in DOMAIN workerEntries
                    /\ Queued(eventQueue, k, workerDispatchFailedEvent) = 0
                    /\ Positions(delivered[k], workerDispatchFailedEvent)
                          = {})

\* C31 witness: the RPC of u1 has just failed in the transport: its entry
\* is still Created and nothing is queued for it, while the RPC of u2 was
\* answered with an error code and its WorkerDispatchFailed is queued
C31_Witness ==
    /\ lastOp = SendOp("u1", "transport")
    /\ DispatchSucceeded("u1")
    /\ workerEntries["u1"].state = "Created"
    /\ QueuedFor(eventQueue, "u1") = 0
    /\ calls["u2"].pc = "finished" /\ calls["u2"].err = "ErrDispatchTask"
    /\ Queued(eventQueue, "u2", workerDispatchFailedEvent) = 1

\* the operations whose step runs between m.mu.Lock() and m.mu.Unlock():
\* the handlers, the checker round, the two locked sections of
\* InitAfterRecover (insert of the loaded entries, tombstoning after the
\* timer), removeTombstoneEntry and the WorkerDispatchFailed hook run by
\* Tick. The last assignment of InitAfterRecover is not among them.
MutexHeldOps ==
    {"HandleHeartbeat", "OnWorkerStatusUpdateMessage", "BeforeStartingWorker",
     "AbortCreatingWorker", "checkWorkerEntriesOnce", "InitLoad",
     "InitTimeout", "removeTombstoneEntry", "TickDeliver"}

\* this step writes m.state or inserts into / deletes from m.workerEntries
WritesGuardedFields ==
    state' # state \/ DOMAIN workerEntries' # DOMAIN workerEntries

\* C32: every write of workerEntries and of the manager state is performed
\* while the manager mutex is held, the transition to Ready at the end of
\* InitAfterRecover included.
C32_LockDiscipline ==
    [][WritesGuardedFields => lastOp'.op \in MutexHeldOps]_vars

\* queue q is what is left of queue p after zero or more sends
Extends(p, q) ==
    /\ Len(p) <= Len(q)
    /\ \A i \in 1..Len(p) : q[i] = p[i]

\* this step takes an event out of the queue or invokes a callback
TickReceives ==
    Len(eventQueue') < Len(eventQueue) \/ delivered' # delivered

\* this step is the return of a Tick that had entered its loop
TickReturns ==
    tickPc = "running" /\ tickPc' = "idle"

\* C33: Tick delivers pending events in enqueue (FIFO) order, runs the
\* beforeHook of each event before its callback, delivers each enqueued
\* event at most once, stops at the first callback error and returns it,
\* returns nil only after it observed the queue empty, and leaves the
\* events it did not consume queued for the next Tick.
C33_TickDelivery ==
    [][/\ TickReceives
           => /\ lastOp'.op = "TickDeliver"
              /\ tickPc = "running" /\ tickPc' = "running"
              /\ eventQueue' = Tail(eventQueue)
              /\ delivered' = [delivered EXCEPT
                     ![Head(eventQueue).WorkerID] =
                         Append(@, Head(eventQueue).Tp)]
              /\ workerEntries' = beforeHook(Head(eventQueue),
                                             workerEntries)
       /\ ~TickReceives => Extends(eventQueue, eventQueue')
       /\ TickReturns
           => /\ lastOp'.op = "TickReturn"
              /\ UNCHANGED <<eventQueue, delivered, workerEntries>>
              /\ lastOp'.result = "nil" => eventQueue = << >>
              /\ lastOp'.result = "callbackErr"
                    => lastOp.op = "TickDeliver"]_vars

\* C33 witness: Tick has delivered the WorkerOnline of u1 before the
\* WorkerDispatchFailed of u2, which was enqueued after it and whose hook
\* has removed the entry; the callback failed and Tick returned its error
\* with an event still queued
C33_Witness ==
    /\ lastOp = TickReturnOp("callbackErr")
    /\ delivered["u1"] = <<workerOnlineEvent>>
    /\ delivered["u2"] = <<workerDispatchFailedEvent>>
    /\ "u2" \notin DOMAIN workerEntries
    /\ eventQueue # << >>

\* C34: the Epoch stored in the persisted MasterMeta record of a masterID
\* never decreases, also when two instances of the same masterID interleave
\* the Load / GenEpoch / Store steps of refreshMetadata and the Load /
\* Store steps of markStatusCodeInMetadata.
C34_PersistedEpochNeverDecreases ==
    [][metaKV'.Epoch >= metaKV.Epoch]_vars

\* C35: during recovery HandleHeartbeat never reaches its "Unexpected
\* worker entry state" panic and never closes the allWorkersReady latch
\* twice, whatever heartbeats with the current epoch arrive: a repeated one
\* of a worker that is already Online, one that arrives after the latch
\* was closed or after the timeout tombstoned the Wait entries and before
\* the state is Ready.
C35_NoPanicDuringRecovery ==
    panicked \notin {"UnexpectedWorkerEntryState", "CloseOfClosedChannel"}

\* the entry of w is live: the worker is Created or Online under a manager
\* that is Ready
LiveEntry(w) ==
    /\ state = "Ready"
    /\ w \in DOMAIN workerEntries
    /\ workerEntries[w].state \in {"Created", "Online"}

\* the timeout checker has marked w Offline, WorkerOffline was delivered to
\* the user and the entry is a tombstone
OfflineDetected(w) ==
    /\ offlineFrom[w] # "none"
    /\ Positions(delivered[w], workerOfflineEvent) # {}
    /\ w \in DOMAIN workerEntries
    /\ workerEntries[w].state = "Tombstone"

\* the last accepted heartbeat of w has set an expiry that the clock of the
\* model, which stops at MaxTime, does not reach
ExpiryBeyondClock(w) ==
    w \in DOMAIN workerEntries /\ workerEntries[w].expireAt > MaxTime

HeartbeatHandled(w) ==
    lastOp' = Op("HandleHeartbeat", w, OwnEpoch)

\* C37: Offline and Tombstone are absorbing under heartbeats. A heartbeat
\* with the current epoch for an entry that is Offline or Tombstone (a
\* worker tombstoned by the recovery timeout included) never changes the
\* State or the ExecutorID of the entry and never enqueues an event; a
\* heartbeat received while the manager is in LoadingMeta changes nothing.
C37_OfflineAbsorbing ==
    [][\A w \in Workers :
          /\ (/\ HeartbeatHandled(w)
              /\ w \in DOMAIN workerEntries
              /\ workerEntries[w].state \in {"Offline", "Tombstone"})
                => /\ DOMAIN workerEntries' = DOMAIN workerEntries
                   /\ \A x \in DOMAIN workerEntries :
                         /\ workerEntries'[x].state = workerEntries[x].state
                         /\ workerEntries'[x].executorID
                               = workerEntries[x].executorID
                   /\ UNCHANGED <<eventQueue, state, allWorkersReady>>
          /\ (\E e \in MsgEpochs : lastOp' = Op("HandleHeartbeat", w, e))
                /\ state = "LoadingMeta"
                => UNCHANGED <<state, workerEntries, eventQueue,
                               allWorkersReady, errCenter, panicked>>]_vars

\* C37 witness: the recovery timeout tombstoned w1, the manager went Ready
\* and the heartbeat of w1 that came afterwards left the tombstone as it was
C37_Witness ==
    /\ lastOp = Op("HandleHeartbeat", "w1", OwnEpoch)
    /\ state = "Ready"
    /\ "w1" \in timedOut
    /\ "w1" \in DOMAIN workerEntries
    /\ workerEntries["w1"].state = "Tombstone"
    /\ workerEntries["w1"].expireAt = nextExpireTime
    /\ eventQueue = << >>
    /\ panicked = "none"

\* the i-th Poll returned an error that had been posted through OnError
ReturnedPostedError(i) ==
    pollLog[i] \in ErrValues /\ pollLog[i] # NoError

\* C38: a fatal error is sticky. Once a Poll has returned an error that was
\* posted through OnError to the error channel, every later Poll on that
\* master returns an error too and calls neither the Worker Manager's Tick
\* nor the user's Tick.
C38_FatalErrorSticky ==
    \A i, j \in 1..Len(pollLog) :
       (i < j /\ ReturnedPostedError(i))
           => pollLog[j] # NoError /\ ~pollTicks[j]

\* InitImpl returned an error in the Init described by m
InitImplFailed(m) ==
    m.callbackErr /\ m.userCalls = <<"InitImpl">>

\* C39: if the user's InitImpl returns an error during Init, the persisted
\* MasterMeta keeps StatusCode Uninit although its Epoch was already
\* rewritten, so the next Init on the same masterID treats the start as a
\* first start-up: it gets a larger epoch and the callback it calls is
\* InitImpl again, not OnMasterRecovered.
C39_InitImplFailureKeepsUninit ==
    \A i \in 1..Len(AllInits) :
       InitImplFailed(AllInits[i])
           => /\ AllInits[i].loaded.StatusCode = "Uninit"
              /\ AllInits[i].stored = AllInits[i].epoch
              /\ i = Len(AllInits)
                    => /\ metaKV.StatusCode = "Uninit"
                       /\ metaKV.Epoch = AllInits[i].epoch
              /\ i < Len(AllInits)
                    => LET next == AllInits[i + 1]
                       IN  /\ next.loaded.StatusCode \in {"none", "Uninit"}
                           /\ next.epoch # 0
                                 => next.epoch > AllInits[i].epoch
                           /\ next.userCalls \in {<< >>, <<"InitImpl">>}
                           /\ next.pc \in {"mark", "markStore", "done"}
                                 => next.userCalls = <<"InitImpl">>

\* C39 witness: InitImpl failed in the first Init; the second Init got a
\* larger epoch, called InitImpl again and returned nil
C39_Witness ==
    /\ Len(inits) = 1
    /\ InitImplFailed(inits[1])
    /\ baseMaster.pc = "done"
    /\ baseMaster.userCalls = <<"InitImpl">>
    /\ baseMaster.epoch > inits[1].epoch
    /\ metaKV.StatusCode = "Init"

\* ------------------------------------------------------------------------
\* m.mu step by step: the producers of eventQueue and Tick
\* ------------------------------------------------------------------------
\* what the steps below leave alone
lockRest == <<state, allWorkersReady, panicked, now, isInit, persisted,
              initPc, timerStart, tickPc, dispatch, nStatus, timedOut,
              closed, createWorkerQuota, calls, metaKV, baseMaster, inits,
              errCh, errLog, pollLog, pollTicks, closeResult, staleMaster>>

\* the worker whose heartbeats arrive
HeartbeatWorker == "w2"

\* HandleHeartbeat from m.mu.Lock() to enqueueEvent, with the epoch of this
\* master and the manager Ready; it returns, and unlocks, at once if the
\* heartbeat is not the first one of a known worker
HeartbeatLocked ==
    LET t == "HandleHeartbeat"
        w == HeartbeatWorker
    IN  /\ panicked = "none"
        /\ mu.pc[t] = "idle"
        /\ mu.holder = "none"
        /\ state = "Ready"
        /\ IF w \notin DOMAIN workerEntries
           THEN UNCHANGED <<workerEntries, mu>>
           ELSE LET entry == SetExpireTime(workerEntries[w], nextExpireTime)
                IN  IF ~IsFirstHeartbeat(entry)
                    THEN /\ workerEntries' =
                               [workerEntries EXCEPT ![w] = entry]
                         /\ UNCHANGED mu
                    ELSE /\ workerEntries' = [workerEntries EXCEPT
                               ![w] = MarkAsOnline(entry, NodeOf(w),
                                                   nextExpireTime)]
                         /\ mu' = [mu EXCEPT !.holder = t,
                               !.pc[t] = "enqueue",
                               !.event[t] = masterEvent(workerOnlineEvent,
                                                        w, NoError)]
        /\ UNCHANGED <<eventQueue, errCenter, checkerAlive, delivered,
                       offlineFrom, lastOp>>
        /\ UNCHANGED lockRest

\* AbortCreatingWorker from m.mu.Lock() to enqueueEvent, called once by
\* the dispatch goroutine t
AbortLocked(t) ==
    /\ panicked = "none"
    /\ t \in AbortCalls
    /\ mu.pc[t] = "idle"
    /\ mu.holder = "none"
    /\ mu' = [mu EXCEPT !.holder = t, !.pc[t] = "enqueue",
                        !.event[t] = masterEvent(workerDispatchFailedEvent,
                                                 t, "ErrScheduleTask")]
    /\ UNCHANGED <<workerEntries, eventQueue, errCenter, checkerAlive,
                   delivered, offlineFrom, lastOp>>
    /\ UNCHANGED lockRest

\* checkWorkerEntriesOnce: m.mu.Lock() and the start of the range
CheckerLock ==
    LET t == "checkWorkerEntriesOnce"
    IN  /\ panicked = "none"
        /\ checkerAlive
        /\ mu.pc[t] = "idle"
        /\ mu.holder = "none"
        /\ \E order \in Orders(DOMAIN workerEntries) :
              mu' = [mu EXCEPT !.holder = t, !.pc[t] = "locked",
                               !.order = order]
        /\ UNCHANGED <<workerEntries, eventQueue, errCenter, checkerAlive,
                       delivered, offlineFrom, lastOp>>
        /\ UNCHANGED lockRest

\* checkWorkerEntriesOnce: one iteration of the range, up to enqueueEvent;
\* the deferred Unlock when the range is over
CheckerLocked ==
    LET t == "checkWorkerEntriesOnce"
    IN  /\ mu.pc[t] = "locked"
        /\ IF state # "Ready" \/ mu.order = << >>
           THEN /\ mu' = [mu EXCEPT !.holder = "none", !.pc[t] = "idle",
                                    !.order = << >>]
                /\ UNCHANGED <<workerEntries, offlineFrom>>
           ELSE LET w == Head(mu.order)
                    entry == workerEntries[w]
                    rest == Tail(mu.order)
                IN  IF SkipEntry(entry)
                    THEN /\ mu' = [mu EXCEPT !.order = rest]
                         /\ UNCHANGED <<workerEntries, offlineFrom>>
                    ELSE IF NotTimedOut(entry)
                    THEN IF entry.pending
                         THEN /\ workerEntries' = [workerEntries EXCEPT
                                    ![w] = Receive(entry)]
                              /\ mu' = [mu EXCEPT !.order = rest,
                                    !.pc[t] = "enqueue",
                                    !.event[t] = masterEvent(
                                        workerStatusUpdatedEvent, w, NoError)]
                              /\ UNCHANGED offlineFrom
                         ELSE /\ mu' = [mu EXCEPT !.order = rest]
                              /\ UNCHANGED <<workerEntries, offlineFrom>>
                    ELSE /\ workerEntries' = [workerEntries EXCEPT
                               ![w] = MarkAsOffline(entry)]
                         /\ offlineFrom' = IF w \in Workers
                               THEN [offlineFrom EXCEPT ![w] = entry.state]
                               ELSE offlineFrom
                         /\ mu' = [mu EXCEPT !.order = rest,
                               !.pc[t] = "enqueue",
                               !.event[t] = masterEvent(workerOfflineEvent,
                                   w, OfflineReason(entry.code))]
        /\ UNCHANGED <<eventQueue, errCenter, checkerAlive, delivered,
                       lastOp>>
        /\ UNCHANGED lockRest

\* where a producer goes when enqueueEvent has returned nil: the checker
\* goes on with its range, the others return and unlock
AfterSend(t) ==
    IF t = "checkWorkerEntriesOnce"
    THEN [mu EXCEPT !.event[t] = NoEvent, !.pc[t] = "locked"]
    ELSE [mu EXCEPT !.event[t] = NoEvent, !.holder = "none",
                    !.pc[t] = IF t \in AbortCalls THEN "done" ELSE "idle"]

\* enqueueEvent: the case m.eventQueue <- event of the select
EnqueueSend(t) ==
    /\ mu.pc[t] = "enqueue"
    /\ CanEnqueue(eventQueue)
    /\ eventQueue' = Append(eventQueue, mu.event[t])
    /\ mu' = AfterSend(t)
    /\ UNCHANGED <<workerEntries, errCenter, checkerAlive, delivered,
                   offlineFrom, lastOp>>
    /\ UNCHANGED lockRest

\* mutant: the select of enqueueEvent has no timer case
EnqueueTimeout_NoTimer(t) ==
    /\ mu.pc[t] = "enqueue"
    /\ ~CanEnqueue(eventQueue)
    /\ FALSE
    /\ UNCHANGED vars

\* enqueueEvent: the case <-timer.C of the select, after the channel has
\* been full for the enqueue bound; the error goes to errCenter and ends
\* the checker; the method returns and unlocks
EnqueueTimeout(t) ==
    /\ mu.pc[t] = "enqueue"
    /\ ~CanEnqueue(eventQueue)
    /\ errCenter' = OnError(errCenter, "ErrMasterTooManyPendingEvents")
    /\ checkerAlive' = IF t = "checkWorkerEntriesOnce" THEN FALSE
                       ELSE checkerAlive
    /\ mu' = [mu EXCEPT !.event[t] = NoEvent, !.holder = "none",
                        !.order = << >>,
                        !.pc[t] = IF t \in AbortCalls THEN "done"
                                  ELSE "idle"]
    /\ UNCHANGED <<workerEntries, eventQueue, delivered, offlineFrom,
                   lastOp>>
    /\ UNCHANGED lockRest

\* Tick: the case event = <-m.eventQueue of the select. The hook of a
\* WorkerDispatchFailed event has to take m.mu; the other hooks do not, and
\* the callback follows them at once
TickReceive ==
    /\ panicked = "none"
    /\ tickPc = "running"
    /\ mu.tick = "select"
    /\ eventQueue # << >>
    /\ LET event == Head(eventQueue)
       IN  /\ eventQueue' = Tail(eventQueue)
           /\ IF event.Tp = workerDispatchFailedEvent
              THEN /\ mu' = [mu EXCEPT !.tick = "hookWait",
                                       !.tickEvent = event]
                   /\ UNCHANGED <<workerEntries, delivered, lastOp>>
              ELSE /\ workerEntries' = beforeHook(event, workerEntries)
                   /\ delivered' = [delivered EXCEPT
                          ![event.WorkerID] = Append(@, event.Tp)]
                   /\ lastOp' = Op("TickDeliver", event.WorkerID, 0)
                   /\ UNCHANGED mu
    /\ UNCHANGED <<errCenter, checkerAlive, offlineFrom>>
    /\ UNCHANGED lockRest

\* m.mu.Lock() returns in the WorkerDispatchFailed hook: the entry is
\* deleted, m.mu is unlocked and the callback runs
TickHook ==
    /\ mu.tick = "hookWait"
    /\ mu.holder = "none"
    /\ workerEntries' = beforeHook(mu.tickEvent, workerEntries)
    /\ delivered' = [delivered EXCEPT
           ![mu.tickEvent.WorkerID] = Append(@, mu.tickEvent.Tp)]
    /\ lastOp' = Op("TickDeliver", mu.tickEvent.WorkerID, 0)
    /\ mu' = [mu EXCEPT !.tick = "select", !.tickEvent = NoEvent]
    /\ UNCHANGED <<eventQueue, errCenter, checkerAlive, offlineFrom>>
    /\ UNCHANGED lockRest

LockNext ==
    \/ HeartbeatLocked
    \/ \E t \in AbortCalls : AbortLocked(t)
    \/ CheckerLock
    \/ CheckerLocked
    \/ \E t \in Producers : EnqueueSend(t)
    \/ \E t \in Producers : EnqueueTimeout(t)
    \/ mu.holder = "none"
          /\ BeforeStartingWorker(HeartbeatWorker, NodeOf(HeartbeatWorker))
    \/ AdvanceClock
    \/ TickBegin
    \/ TickReceive
    \/ TickHook
    \/ \E result \in TickResults : mu.tick = "select" /\ TickReturn(result)

\* a select returns as soon as one of its cases is ready, and the timer of
\* enqueueEvent always fires; code that does not wait goes on; a goroutine
\* that waits for a sync.Mutex which is released again and again gets it
\* (a waiter of more than 1 ms switches the mutex to starvation mode, where
\* Unlock hands it to the first waiter)
LockFairness ==
    /\ \A t \in Producers : WF_vars(EnqueueSend(t) \/ EnqueueTimeout(t))
    /\ WF_vars(CheckerLocked)
    /\ SF_vars(TickHook)

LockSpec ==
    FirstStartUp /\ [][LockNext]_vars /\ LockFairness

\* C40: no deadlock between the producers and the consumer. The producers
\* enqueue with m.mu held and Tick takes m.mu in the hook of a
\* WorkerDispatchFailed event; in every interleaving, also with a full
\* queue, a producer that is blocked gives up after the enqueue bound and
\* releases m.mu, so Tick always goes on from the hook and no producer
\* keeps m.mu for ever.
C40_NoDeadlock ==
    /\ (mu.tick = "hookWait") ~> (mu.tick = "select")
    /\ \A t \in Producers : (mu.holder = t) ~> (mu.holder # t)

\* C40 witness: Tick waits for m.mu in the hook while a producer holds it,
\* blocked on the full queue
C40_Witness ==
    /\ mu.tick = "hookWait"
    /\ Len(eventQueue) = QueueCap
    /\ \E t \in Producers : mu.holder = t /\ mu.pc[t] = "enqueue"

====
